---- MODULE Spec2Model ----
(***************************************************************************)
(* OrchestrAPI: the plan executor (ToolExecutionService.executePlan), the  *)
(* plan generator with retry and fallback                                   *)
(* (PlanningService.createExecutionPlan) and the streaming pipeline         *)
(* (StreamingOrchestrator.orchestrateRagWorkflow, both revisions kept in    *)
(* streaming-orchestrator.ts), as one state machine per run; the agent's    *)
(* request handler (OrchestrApiAgent.onRequest) with two requests at once,  *)
(* the thread table (DatabaseService.upsertThread) and the chat proxy       *)
(* (app/api/chat/route.ts).                                                 *)
(*                                                                         *)
(* Text is a sequence of character codes, so that slice() and += are the   *)
(* operations the code performs.  The collaborators (retrieval, the        *)
(* language model, the HTTP tool call, storage) are nondeterministic: each *)
(* call either returns a value of a small set or throws.                   *)
(***************************************************************************)
EXTENDS Integers, Sequences, FiniteSets, TLC

VARIABLES
    revision,       \* which orchestrateRagWorkflow of streaming-orchestrator.ts runs: 1 or 2
    planningRevision, \* which PlanningService of planning-service.ts plans: 1 or 2
    userMessage,    \* the user's message (text)
    opc,            \* orchestrateRagWorkflow: where the run is suspended
    stream,         \* events enqueued on the controller, in order
    plan,           \* orchestrateRagWorkflow: const plan
    fullResponse,   \* orchestrateRagWorkflow: let fullResponse
    chunksLeft,     \* chunks the text stream may still deliver
    ppc,            \* createExecutionPlan: where the call is suspended
    attempts,       \* createExecutionPlan: let attempts
    planLocal,      \* createExecutionPlan: let plan
    planResult,     \* createExecutionPlan: the value returned
    planError,      \* createExecutionPlan: the error it rejected with
    epc,            \* executePlan: where the call is suspended
    loopIdx,        \* executePlan: position of the for loop over plan.steps
    stack,          \* executePlan: the executeStep activations, outermost first
    completed,      \* executePlan: const completed
    results,        \* executePlan: const results
    executionTrace, \* executePlan: const executionTrace
    execError,      \* executePlan: the error it rejected with
    toolCalls,      \* executePlan: the executeTool calls made, <<tool, parameters>> each
    planGiven,      \* executePlan: a copy of the plan taken when it was called
    dbHistory,      \* storage: rows of table history, in insertion order
    dbThreads,      \* storage: rows of table threads, in insertion order
    now,            \* Date.now()
    validatorPlan,  \* validateExecutionPlan: its argument
    validatorResult, \* validateExecutionPlan: how the call ended
    calls,          \* history of collaborator calls: <<op, event, argument>>
    reqs,           \* onRequest: the requests of the agent, where each is suspended and its answer
    arrivals,       \* onRequest: the requests in the order they arrived
    jar,            \* browser: its cookies
    post,           \* chat proxy, POST: where the handler is suspended, and its locals
    uuids,          \* chat proxy: ids uuidv4() has generated
    routed,         \* chat proxy: the calls of the agent worker, <<cookies sent, session id>> each
    responses,      \* chat proxy: the responses returned to the browser
    emitted,        \* client adapter: the events the orchestrator wrote on the stream
    wire,           \* client adapter: the bytes of the stream not yet delivered
    adapter         \* client adapter: the locals of run

vars == <<revision, planningRevision, userMessage, opc, stream, plan, fullResponse, chunksLeft,
          ppc, attempts, planLocal, planResult, planError,
          epc, loopIdx, stack, completed, results, executionTrace, execError, toolCalls,
          planGiven, dbHistory, dbThreads, now, validatorPlan, validatorResult, calls,
          reqs, arrivals, jar, post, uuids, routed, responses,
          emitted, wire, adapter>>

orchVars == <<opc, stream, plan, fullResponse, chunksLeft>>
planVars == <<ppc, attempts, planLocal, planResult, planError>>
revVars == <<revision, planningRevision>>
execVars == <<epc, loopIdx, stack, completed, results, executionTrace, execError, toolCalls>>
dbVars == <<dbHistory, dbThreads, now>>
validatorVars == <<validatorPlan, validatorResult>>
agentVars == <<reqs, arrivals>>
proxyVars == <<jar, post, uuids, routed, responses>>
adapterVars == <<emitted, wire, adapter>>

(***************************************************************************)
(* Bounds of the model.                                                    *)
(***************************************************************************)
MaxSteps == 3       \* longest plan handed to executePlan
MaxEdges == 3       \* most depends_on entries in one plan
MaxChunks == 2      \* most chunks one text stream delivers
MaxGenSteps == 2    \* longest plan the plan generator returns in a pipeline run
MaxGenEdges == 1    \* most depends_on entries in a plan the plan generator returns
MaxTokenSteps == 2  \* longest plan with a {{...}} token or an unusual parameters tree
MaxTokenEdges == 1  \* most depends_on entries in a plan with a token

(***************************************************************************)
(* Text.                                                                   *)
(***************************************************************************)
Txt(n) == [i \in 1..n |-> 1 + (i % 3)]

Min(a, b) == IF a < b THEN a ELSE b

\* String.prototype.slice(0, n)
SliceTo(s, n) == SubSeq(s, 1, Min(n, Len(s)))

Last(s) == s[Len(s)]
Front(s) == SubSeq(s, 1, Len(s) - 1)

\* an entry of the call history: a call, its return or its throw (with the message thrown)
NoMessage == <<"", "">>
Call(op, event, arg) == <<op, event, arg, NoMessage>>
CallFailed(op, arg, message) == <<op, "throw", arg, message>>

\* an Error object: its name and its message
Err(name, message) == [name |-> name, message |-> message]

\* what a failing collaborator throws
CollaboratorErrors == {Err("Error", <<"Service unavailable", "">>)}
NoError == Err("", NoMessage)

(***************************************************************************)
(* Plans.                                                                  *)
(***************************************************************************)
StepNames == <<"step1", "step2", "step3", "step4", "step5">>
ToolNames == <<"search-movie", "movie-details", "movie-credits", "movie-similar", "person-details">>
StepDescriptions == <<"Find the movie", "Get the details", "Get the credits", "Get similar movies", "Get the person">>
DanglingId == "step0"

Params(q) == [query |-> [query |-> q]]

\* ids a depends_on entry may hold in a plan of n steps
RefIds(n) == {StepNames[i] : i \in 1..n} \cup {DanglingId}

\* depends_on lists: empty, one id, two ids (repetition allowed)
DepLists(n) ==
    {<<>>} \cup {<<a>> : a \in RefIds(n)} \cup {<<a, b>> : a \in RefIds(n), b \in RefIds(n)}

\* the ways to give k steps their depends_on lists out of n declared steps, with at
\* most b entries in all
RECURSIVE DepAssignments(_, _, _)
DepAssignments(n, k, b) ==
    IF k = 0 THEN {<<>>}
    ELSE LET With(l) ==
                 IF l > b THEN {}
                 ELSE {Append(p, d) : p \in DepAssignments(n, k - 1, b - l),
                                      d \in {x \in DepLists(n) : Len(x) = l}}
         IN With(0) \cup With(1) \cup With(2)

MkStep(i, deps) ==
    [id |-> StepNames[i], description |-> StepDescriptions[i], tool |-> ToolNames[i],
     parameters |-> Params(Txt(i)), depends_on |-> deps]

\* the step lists of at most m steps with at most b depends_on entries
RECURSIVE StepListsWithin(_, _)
StepListsWithin(m, b) ==
    IF m = 0 THEN {}
    ELSE StepListsWithin(m - 1, b)
         \cup {[i \in 1..m |-> MkStep(i, d[i])] : d \in DepAssignments(m, m, b)}

\* the step lists of at most m steps with at most MaxEdges depends_on entries
StepListsUpTo(m) == StepListsWithin(m, MaxEdges)

\* The text of a token as the planning prompt spells it (planning-service.ts,
\* lines 42-43 and 73): {{step1.results.0.id}}.  Characters are ASCII codes.
LBrace == 123
RBrace == 125
FullStop == 46
Zero == 48
StepWord == <<115, 116, 101, 112>>
ResultsKey == <<114, 101, 115, 117, 108, 116, 115>>
IdKey == <<105, 100>>

\* the text of the step id StepNames[i], of DanglingId for i = 0
StepIdText(i) == StepWord \o <<Zero + i>>

\* results.k.id
ResultPath(k) == ResultsKey \o <<FullStop, Zero + k, FullStop>> \o IdKey

TokenText(i, path) == <<LBrace, LBrace>> \o StepIdText(i) \o <<FullStop>> \o path \o <<RBrace, RBrace>>

\* the tokens of the model: any step of the plan or the dangling id, the first or
\* the second entry of its results
TokenTexts(n) == {TokenText(i, ResultPath(k)) : i \in 0..n, k \in 0..1}

\* the step lists of at most m steps in which one step's query is a token
TokenStepLists(m) ==
    {[x[1] EXCEPT ![x[2]].parameters = Params(x[3])] :
        x \in {y \in StepListsWithin(m, MaxTokenEdges) \X (1..m) \X TokenTexts(m) :
                  y[2] <= Len(y[1]) /\ y[3] \in TokenTexts(Len(y[1]))}}

\* the same list with the last step declared under the first step's id
WithRepeatedId(steps) == [steps EXCEPT ![Len(steps)].id = steps[1].id]

(***************************************************************************)
(* What generateObject hands back as result.object.  A value is described  *)
(* by what the code asks of it: typeof, its own keys, Array.isArray(steps).*)
(***************************************************************************)
PlanKeys == {"reasoning", "steps", "expected_outcome"}

PlanObject(reasoning, steps, outcome) ==
    [kind |-> "object", keys |-> PlanKeys, stepsIsArray |-> TRUE,
     reasoning |-> reasoning, steps |-> steps, expected_outcome |-> outcome]

\* null: the initial value of `let plan`, and a possible result.object
NullPlan ==
    [kind |-> "null", keys |-> {}, stepsIsArray |-> FALSE,
     reasoning |-> "", steps |-> <<>>, expected_outcome |-> ""]

\* objects the check of lines 108-114 lets through
ValidObjects ==
    {PlanObject("Search, then fetch the details.", s, "The answer.") :
        s \in StepListsWithin(MaxGenSteps, MaxGenEdges)}
    \cup {PlanObject("Nothing to do.", <<>>, "Nothing.")}

\* values the check of lines 108-114 rejects; the check is there because
\* result.object is taken as it comes (the cast of line 107 tests nothing)
InvalidObjects ==
    { NullPlan,
      [NullPlan EXCEPT !.kind = "string"],
      [PlanObject("r", <<MkStep(1, <<>>)>>, "o") EXCEPT !.keys = PlanKeys \ {"reasoning"}],
      [PlanObject("r", <<>>, "o") EXCEPT !.keys = PlanKeys \ {"steps"}, !.stepsIsArray = FALSE],
      [PlanObject("r", <<>>, "o") EXCEPT !.stepsIsArray = FALSE] }

GeneratedObjects == ValidObjects \cup InvalidObjects

(***************************************************************************)
(* PlanningService.createExecutionPlan (planning-service.ts, lines 83-131) *)
(***************************************************************************)
MaxAttempts == 3
FallbackQueryMax == 500

\* typeof plan === 'object' && plan !== null && 'reasoning' in plan &&
\* 'steps' in plan && Array.isArray(plan.steps)
PlanShapeOK(p) ==
    /\ p.kind = "object"
    /\ "reasoning" \in p.keys
    /\ "steps" \in p.keys
    /\ p.stepsIsArray

\* !plan
Falsy(p) == p.kind = "null"

createFallbackPlan(userQuery) ==
    LET safeQuery == SliceTo(userQuery, FallbackQueryMax)
    IN PlanObject(
         "Fallback plan: search for user query using the most relevant endpoint.",
         << [id |-> "step1",
             description |-> "Search for relevant data based on the user query.",
             tool |-> "search-multi",
             parameters |-> Params(safeQuery),
             depends_on |-> <<>>] >>,
         "A list of search results for the user query.")

\* lines 127-130: what is returned once the loop is left with plan = p
PlanAfterLoop(p) == IF Falsy(p) THEN createFallbackPlan(userMessage) ELSE p

\* the loop is left (break, or attempts reached the bound) and the call returns
LeaveLoop(p, n) ==
    /\ planLocal' = p
    /\ attempts' = n
    /\ planResult' = PlanAfterLoop(p)
    /\ ppc' = "returned"
    /\ UNCHANGED planError

\* the loop goes round: generateObject is called again
NextAttempt(p, n) ==
    /\ planLocal' = p
    /\ attempts' = n
    /\ ppc' = "generating"
    /\ UNCHANGED <<planResult, planError>>

\* await generateObject(...) returned result.object = obj (lines 102-116, 124)
GenerateReturns(obj) ==
    /\ ppc = "generating"
    /\ IF PlanShapeOK(obj)
       THEN LeaveLoop(obj, attempts)
       ELSE IF attempts + 1 < MaxAttempts
            THEN NextAttempt(obj, attempts + 1)
            ELSE LeaveLoop(obj, attempts + 1)
    /\ calls' = Append(calls,
            Call("generate", "return", IF PlanShapeOK(obj) THEN "valid" ELSE "invalid"))
    /\ UNCHANGED <<revVars, planGiven, agentVars, proxyVars, adapterVars, validatorVars, userMessage, orchVars, execVars, dbVars>>

\* a bug: the loop test is attempts <= 3, a fourth attempt follows three failures
GenerateThrowsOnceMore ==
    /\ ppc = "generating"
    /\ IF attempts + 1 <= MaxAttempts
       THEN NextAttempt(planLocal, attempts + 1)
       ELSE LeaveLoop(planLocal, attempts + 1)
    /\ calls' = Append(calls, Call("generate", "throw", ""))
    /\ UNCHANGED <<revVars, planGiven, agentVars, proxyVars, adapterVars, validatorVars, userMessage, orchVars, execVars, dbVars>>

\* await generateObject(...) threw: caught and logged (lines 117-124)
GenerateThrows ==
    /\ ppc = "generating"
    /\ IF attempts + 1 < MaxAttempts
       THEN NextAttempt(planLocal, attempts + 1)
       ELSE LeaveLoop(planLocal, attempts + 1)
    /\ calls' = Append(calls, Call("generate", "throw", ""))
    /\ UNCHANGED <<revVars, planGiven, agentVars, proxyVars, adapterVars, validatorVars, userMessage, orchVars, execVars, dbVars>>

(***************************************************************************)
(* PlanningService.createExecutionPlan, second PlanningService of          *)
(* planning-service.ts (lines 197-214, 282-332): one generateText call,    *)
(* then parseExecutionPlan.  The model's answer is described by what       *)
(* parseExecutionPlan asks of it: its text, whether /\{[\s\S]*\}/ matches,  *)
(* whether JSON.parse accepts the match, and the value parsed.             *)
(***************************************************************************)
Response(raw, json, value) == [raw |-> raw, json |-> json, value |-> value]

GeneratedTexts ==
    {Response(Txt(2), "none", NullPlan), Response(Txt(3), "malformed", NullPlan)}
    \cup {Response(Txt(1), "parsed", o) : o \in {x \in GeneratedObjects : x.kind = "object"}}
    \cup {Response(Txt(1), "parsed", PlanObject("", <<MkStep(1, <<>>)>>, "o"))}

\* lines 315-332
createFallbackPlanFromText(response) ==
    PlanObject(
        "Using fallback plan due to parsing error",
        << [id |-> "search",
            description |-> "Search for movies based on user query",
            tool |-> "search-movie",
            parameters |-> Params(response),
            depends_on |-> <<>>] >>,
        "Find relevant movies and provide information")

\* line 291: !parsed.reasoning || !parsed.steps || !Array.isArray(parsed.steps)
ParsedInvalid(p) ==
    \/ "reasoning" \notin p.keys
    \/ p.reasoning = ""
    \/ "steps" \notin p.keys
    \/ ~p.stepsIsArray

\* lines 282-302
parseExecutionPlan(response) ==
    IF response.json # "parsed" \/ ParsedInvalid(response.value)
    THEN createFallbackPlanFromText(response.raw)
    ELSE response.value

\* await generateText(...) returned result.text = response (lines 204-213)
GenerateTextReturns(response) ==
    /\ ppc = "generatingText"
    /\ planResult' = parseExecutionPlan(response)
    /\ ppc' = "returned"
    /\ calls' = Append(calls, Call("generate", "return", ""))
    /\ UNCHANGED <<attempts, planLocal, planError>>
    /\ UNCHANGED <<revVars, planGiven, agentVars, proxyVars, adapterVars, validatorVars, userMessage, orchVars, execVars, dbVars>>

\* await generateText(...) threw: createExecutionPlan rejects with the error
GenerateTextThrows(e) ==
    /\ ppc = "generatingText"
    /\ planError' = e
    /\ ppc' = "threw"
    /\ calls' = Append(calls, CallFailed("generate", "", e.message))
    /\ UNCHANGED <<attempts, planLocal, planResult>>
    /\ UNCHANGED <<revVars, planGiven, agentVars, proxyVars, adapterVars, validatorVars, userMessage, orchVars, execVars, dbVars>>

(***************************************************************************)
(* RequestValidator.validateExecutionPlan (types.ts, lines 125-163).  A    *)
(* JavaScript value is described by its type and, for a string or number,  *)
(* its text; the plan handed in by its own type, its reasoning, and its    *)
(* steps: a value that is not an array, or the array of its step objects.  *)
(***************************************************************************)
JsValue(t, s) == [t |-> t, s |-> s]
JsUndefined == JsValue("undefined", "")
JsNull == JsValue("null", "")
JsString(s) == JsValue("string", s)
JsNumber(s) == JsValue("number", s)
JsObject == JsValue("object", "")
JsArray == JsValue("array", "")

\* !v is false
Truthy(v) ==
    \/ v.t = "string" /\ v.s # ""
    \/ v.t = "number" /\ v.s # "0"
    \/ v.t \in {"object", "array"}

\* typeof v
TypeOf(v) == IF v.t \in {"null", "array"} THEN "object" ELSE v.t

StepValue(id, description, tool, parameters) ==
    [id |-> id, description |-> description, tool |-> tool, parameters |-> parameters]

GoodStepValue == StepValue(JsString("step1"), JsString("Find the movie"), JsString("search-movie"), JsObject)

StepValues ==
    {StepValue(i, d, t, p) :
        i \in {JsUndefined, JsString(""), JsString("step1")},
        d \in {JsString(""), JsString("Find the movie")},
        t \in {JsString("search-movie"), JsNumber("5")},
        p \in {JsUndefined, JsNull, JsObject, JsArray, JsString("p")}}

\* arrays of steps: of up to MaxGenSteps steps, at most one of them not the good step
StepArrays ==
    {<<>>} \cup UNION {
        {[i \in 1..n |-> IF i = k THEN v ELSE GoodStepValue] : k \in 1..n, v \in StepValues}
        : n \in 1..MaxGenSteps}

PlanValue(self, reasoning, steps, elems) ==
    [self |-> self, reasoning |-> reasoning, steps |-> steps, elems |-> elems]

\* the arguments validateExecutionPlan is tried on: null, a string, and objects
ValidatorPlans ==
    {PlanValue(JsNull, JsUndefined, JsUndefined, <<>>),
     PlanValue(JsString("plan"), JsUndefined, JsUndefined, <<>>)}
    \cup {PlanValue(JsObject, r, st, <<>>) :
            r \in {JsUndefined, JsString(""), JsString("Search first."), JsNumber("5")},
            st \in {JsUndefined, JsString("steps")}}
    \cup {PlanValue(JsObject, r, JsArray, a) :
            r \in {JsUndefined, JsString(""), JsString("Search first."), JsNumber("5")},
            a \in StepArrays}

NoValidatorPlan == PlanValue(JsUndefined, JsUndefined, JsUndefined, <<>>)
ValidatorOutcome(status, errors) == [status |-> status, errors |-> errors]
NotValidated == ValidatorOutcome("none", <<>>)

\* lines 143-154: the messages pushed for step i (counted from 0)
StepErrors(step, i) ==
    (IF ~Truthy(step.id) \/ TypeOf(step.id) # "string"
        THEN <<<<"must have an id", i>>>> ELSE <<>>)
    \o (IF ~Truthy(step.description) \/ TypeOf(step.description) # "string"
        THEN <<<<"must have a description", i>>>> ELSE <<>>)
    \o (IF ~Truthy(step.tool) \/ TypeOf(step.tool) # "string"
        THEN <<<<"must have a tool", i>>>> ELSE <<>>)
    \o (IF ~Truthy(step.parameters) \/ TypeOf(step.parameters) # "object"
        THEN <<<<"must have parameters", i>>>> ELSE <<>>)

\* lines 140-156: the loop over plan.steps
AllStepErrors(elems) ==
    LET E[n \in 0..Len(elems)] ==
            IF n = 0 THEN <<>> ELSE E[n - 1] \o StepErrors(elems[n], n - 1)
    IN E[Len(elems)]

\* lines 128-138: the messages pushed for the plan itself
PlanErrors(p) ==
    (IF ~Truthy(p.self) \/ TypeOf(p.self) # "object"
        THEN <<<<"Plan must be an object", -1>>>> ELSE <<>>)
    \o (IF ~Truthy(p.reasoning) \/ TypeOf(p.reasoning) # "string"
        THEN <<<<"Plan must have a reasoning field", -1>>>> ELSE <<>>)
    \o (IF p.steps.t # "array"
        THEN <<<<"Plan must have a steps array", -1>>>> ELSE <<>>)

\* reading plan.reasoning of null or undefined throws a TypeError (line 132);
\* otherwise a ValidationError with the messages, or true
validateExecutionPlan(p) ==
    IF p.self.t \in {"null", "undefined"}
    THEN ValidatorOutcome("TypeError", <<>>)
    ELSE LET errors == PlanErrors(p)
                       \o (IF p.steps.t = "array" THEN AllStepErrors(p.elems) ELSE <<>>)
         IN IF errors # <<>>
            THEN ValidatorOutcome("ValidationError", errors)
            ELSE ValidatorOutcome("true", <<>>)

\* one call of RequestValidator.validateExecutionPlan
Validate ==
    /\ validatorResult = NotValidated
    /\ validatorPlan # NoValidatorPlan
    /\ validatorResult' = validateExecutionPlan(validatorPlan)
    /\ UNCHANGED <<revVars, planGiven, agentVars, proxyVars, adapterVars, validatorPlan, userMessage, orchVars, planVars, execVars, dbVars, calls>>

(***************************************************************************)
(* ToolExecutionService.executePlan (tool-execution-service.ts, lines      *)
(* 75-128), called with useAIUtils = false as the orchestrator calls it.   *)
(* executeStep is recursive: `stack` holds its activations.  A frame is    *)
(* [stepId, next]: next = 0 at the function's entry (line 83), next = k >= 1*)
(* when the for loop of lines 89-91 is about to read depends_on[k].        *)
(***************************************************************************)
\* the engine's call-stack limit, just above the deepest chain an acyclic plan has
StackLimit == MaxSteps + 1

ToolErrorMessages ==
    {"API call failed (404): not found", "Endpoint for tool not found",
     "Missing required parameter: query in query"}

\* JSON values: a number, a string, an array of values, an object of <<key, value>>
\* members in their order
JsonValue(t, n, s, a, m) == [t |-> t, n |-> n, s |-> s, a |-> a, m |-> m]
JsonNumber(n) == JsonValue("number", n, <<>>, <<>>, <<>>)
JsonStringValue(s) == JsonValue("string", 0, s, <<>>, <<>>)
JsonArray(a) == JsonValue("array", 0, <<>>, a, <<>>)
JsonObject(m) == JsonValue("object", 0, <<>>, <<>>, m)

\* the decimal digits of a natural number
RECURSIVE Digits(_)
Digits(n) == IF n < 10 THEN <<Zero + n>> ELSE Digits(n \div 10) \o <<Zero + (n % 10)>>

\* JSON.stringify(value)
RECURSIVE JsonStringify(_)
JsonStringify(v) ==
    LET quoted(t) == <<34>> \o t \o <<34>>
        items[k \in 0..Len(v.a)] ==
            IF k = 0 THEN <<>>
            ELSE items[k - 1] \o (IF k > 1 THEN <<44>> ELSE <<>>) \o JsonStringify(v.a[k])
        members[k \in 0..Len(v.m)] ==
            IF k = 0 THEN <<>>
            ELSE members[k - 1] \o (IF k > 1 THEN <<44>> ELSE <<>>)
                 \o quoted(v.m[k][1]) \o <<58>> \o JsonStringify(v.m[k][2])
    IN IF v.t = "number" THEN Digits(v.n)
       ELSE IF v.t = "string" THEN quoted(v.s)
       ELSE IF v.t = "array" THEN <<91>> \o items[Len(v.a)] \o <<93>>
       ELSE <<LBrace>> \o members[Len(v.m)] \o <<RBrace>>

\* what await response.json() gives (line 169): {"results":[{"id":7}]}
ToolResult(step) ==
    JsonObject(<< <<ResultsKey, JsonArray(<<JsonObject(<< <<IdKey, JsonNumber(7)>> >>)>>)>> >>)

(***************************************************************************)
(* fixToolCall (the tool middleware, printed in README.md lines 350-397).   *)
(* A parameters tree is a record of groups (path, query); a group is a      *)
(* record of the parameters given.  toolSchemas comes from the OpenAPI      *)
(* document, which is data: every tool of the document has here a required *)
(* string `query` without default and an integer `page` with default 1, in  *)
(* the query group, and no path parameter.                                  *)
(***************************************************************************)
NoDefault == JsonValue("undefined", 0, <<>>, <<>>, <<>>)

ToolSchema ==
    [path |-> [properties |-> <<>>, required |-> {}],
     query |-> [properties |-> <<[name |-> "query", type |-> "string", default |-> NoDefault],
                                [name |-> "page", type |-> "integer",
                                 default |-> JsonNumber(1)]>>,
                required |-> {"query"}]]

\* a bug: every tool name is taken to be in the catalog
HasSchemaAlways(tool) == TRUE

\* toolSchemas[toolName] is defined: the tool is an operation of the document
HasSchema(tool) == \E i \in 1..Len(ToolNames) : ToolNames[i] = tool

\* /^\d+$/.test(value)
IsDigits(t) == Len(t) > 0 /\ \A i \in 1..Len(t) : t[i] \in Zero..(Zero + 9)

\* parseInt(value, 10) of a string of digits
ParseInt(t) ==
    LET V[i \in 0..Len(t)] == IF i = 0 THEN 0 ELSE 10 * V[i - 1] + (t[i] - Zero)
    IN V[Len(t)]

\* the object with key set to value
WithKey(obj, key, value) ==
    [k \in DOMAIN obj \cup {key} |-> IF k = key THEN value ELSE obj[k]]

\* lines 365-393 for the properties k.. of one group: the group object as the loop
\* leaves it and the name of the required parameter it stopped at ("" if it ran through)
RECURSIVE FixGroup(_, _, _)
FixGroup(schema, obj, k) ==
    IF k > Len(schema.properties) THEN [obj |-> obj, missing |-> ""]
    ELSE LET p == schema.properties[k]
             given == p.name \in DOMAIN obj
             coerced ==
                 IF given /\ p.type = "integer" /\ obj[p.name].t = "string"
                          /\ IsDigits(obj[p.name].s)
                 THEN WithKey(obj, p.name, JsonNumber(ParseInt(obj[p.name].s)))
                 ELSE obj
             filled ==
                 IF ~given /\ p.default # NoDefault
                 THEN WithKey(coerced, p.name, p.default)
                 ELSE coerced
         IN IF p.name \in schema.required /\ p.name \notin DOMAIN filled
            THEN [obj |-> filled, missing |-> p.name]
            ELSE FixGroup(schema, filled, k + 1)

\* fixToolCall(toolName, toolCall, toolSchemas): `fixed` is the object returned,
\* `toolCall` the argument as the call leaves it (fixed = {...toolCall} copies the
\* top level only, so a group the argument has is the same object in both), and
\* `missing` the <<parameter, group>> the call threw for (<<>> if it returned)
fixToolCall(tool, toolCall) ==
    IF ~HasSchema(tool) THEN [fixed |-> toolCall, toolCall |-> toolCall, missing |-> <<>>]
    ELSE LET Group(g) == IF g \in DOMAIN toolCall THEN toolCall[g] ELSE <<>>
             path == FixGroup(ToolSchema.path, Group("path"), 1)
             query == FixGroup(ToolSchema.query, Group("query"), 1)
             Shared(obj, g, r) == IF g \in DOMAIN toolCall THEN WithKey(obj, g, r.obj) ELSE obj
         IN IF path.missing # ""
            THEN [fixed |-> WithKey(toolCall, "path", path.obj),
                  toolCall |-> Shared(toolCall, "path", path),
                  missing |-> <<path.missing, "path">>]
            ELSE [fixed |-> WithKey(WithKey(toolCall, "path", path.obj), "query", query.obj),
                  toolCall |-> Shared(Shared(toolCall, "path", path), "query", query),
                  missing |-> IF query.missing # "" THEN <<query.missing, "query">> ELSE <<>>]

\* a bug: the parameters are not checked, every call goes on to fetch
ThrowsBeforeFetchNever(tool, parameters) == ""

\* executeTool up to its first await (lines 151-160): the message it throws with
\* before any request is made, "" if it goes on to fetch
ThrowsBeforeFetch(tool, parameters) ==
    IF fixToolCall(tool, parameters).missing # <<>>
    THEN "Missing required parameter: query in query"
    ELSE IF ~HasSchema(tool) THEN "Endpoint for tool not found"
    ELSE ""

Frame(stepId) == [stepId |-> stepId, next |-> 0]

Top == stack[Len(stack)]

\* new Map(plan.steps.map((step) => [step.id, step])): a later entry replaces an earlier one
StepMapHas(stepId) == \E i \in 1..Len(plan.steps) : plan.steps[i].id = stepId

StepMapIndex(stepId) ==
    CHOOSE i \in 1..Len(plan.steps) :
        /\ plan.steps[i].id = stepId
        /\ \A j \in (i + 1)..Len(plan.steps) : plan.steps[j].id # stepId

StepMapGet(stepId) == plan.steps[StepMapIndex(stepId)]

\* a bug: no memo, every executeStep call runs the step
AlreadyCompletedNever(stepId) == FALSE

\* a bug: a step whose executeStep call is still pending counts as completed
AlreadyCompletedOrPending(stepId) ==
    \/ stepId \in completed
    \/ \E i \in 1..(Len(stack) - 1) : stack[i].stepId = stepId

\* line 83: completed.has(stepId)
AlreadyCompleted(stepId) == stepId \in completed

\* executePlan rejects with error e: every pending executeStep is abandoned
ExecReject(e) ==
    /\ epc' = "threw"
    /\ execError' = e
    /\ stack' = <<>>

\* a bug: the for loop walks plan.steps from the last step to the first
PlanLoopBackwards ==
    /\ epc = "run"
    /\ stack = <<>>
    /\ IF loopIdx <= Len(plan.steps)
       THEN /\ stack' = <<Frame(plan.steps[Len(plan.steps) + 1 - loopIdx].id)>>
            /\ loopIdx' = loopIdx + 1
            /\ UNCHANGED epc
       ELSE /\ epc' = "done"
            /\ UNCHANGED <<stack, loopIdx>>
    /\ UNCHANGED <<completed, results, executionTrace, execError, toolCalls>>
    /\ UNCHANGED <<revVars, planGiven, agentVars, proxyVars, adapterVars, validatorVars, userMessage, orchVars, planVars, dbVars, calls>>

\* lines 123-127: the for loop over plan.steps, then the return
PlanLoop ==
    /\ epc = "run"
    /\ stack = <<>>
    /\ IF loopIdx <= Len(plan.steps)
       THEN /\ stack' = <<Frame(plan.steps[loopIdx].id)>>
            /\ loopIdx' = loopIdx + 1
            /\ UNCHANGED epc
       ELSE /\ epc' = "done"
            /\ UNCHANGED <<stack, loopIdx>>
    /\ UNCHANGED <<completed, results, executionTrace, execError, toolCalls>>
    /\ UNCHANGED <<revVars, planGiven, agentVars, proxyVars, adapterVars, validatorVars, userMessage, orchVars, planVars, dbVars, calls>>

\* lines 83-86: the memo test and the lookup of the step
ExecuteStepEnter ==
    /\ epc = "run"
    /\ stack # <<>>
    /\ Top.next = 0
    /\ IF AlreadyCompleted(Top.stepId)
       THEN /\ stack' = Front(stack)
            /\ UNCHANGED <<epc, execError>>
       ELSE IF ~StepMapHas(Top.stepId)
            THEN ExecReject(Err("Error", <<"Step not found", Top.stepId>>))
            ELSE /\ stack' = [stack EXCEPT ![Len(stack)].next = 1]
                 /\ UNCHANGED <<epc, execError>>
    /\ UNCHANGED <<toolCalls, loopIdx, completed, results, executionTrace>>
    /\ UNCHANGED <<revVars, planGiven, agentVars, proxyVars, adapterVars, validatorVars, userMessage, orchVars, planVars, dbVars, calls>>

\* a bug: the for loop of lines 89-91 never moves on from its first entry
ResolveDependencyAgain ==
    /\ epc = "run"
    /\ stack # <<>>
    /\ Top.next >= 1
    /\ Top.next <= Len(StepMapGet(Top.stepId).depends_on)
    /\ stack' = Append(stack, Frame(StepMapGet(Top.stepId).depends_on[Top.next]))
    /\ UNCHANGED <<epc, execError>>
    /\ UNCHANGED <<toolCalls, loopIdx, completed, results, executionTrace>>
    /\ UNCHANGED <<revVars, planGiven, agentVars, proxyVars, adapterVars, validatorVars, userMessage, orchVars, planVars, dbVars, calls>>

\* lines 88-92: await executeStep(depId) for the next depends_on entry
ResolveDependency ==
    /\ epc = "run"
    /\ stack # <<>>
    /\ Top.next >= 1
    /\ Top.next <= Len(StepMapGet(Top.stepId).depends_on)
    /\ IF Len(stack) >= StackLimit
       THEN ExecReject(Err("RangeError", <<"Maximum call stack size exceeded", "">>))
       ELSE /\ stack' = Append([stack EXCEPT ![Len(stack)].next = Top.next + 1],
                               Frame(StepMapGet(Top.stepId).depends_on[Top.next]))
            /\ UNCHANGED <<epc, execError>>
    /\ UNCHANGED <<toolCalls, loopIdx, completed, results, executionTrace>>
    /\ UNCHANGED <<revVars, planGiven, agentVars, proxyVars, adapterVars, validatorVars, userMessage, orchVars, planVars, dbVars, calls>>

\* a bug: the tool is called without the for loop of lines 89-91 having run
DepsResolvedEarly(frame) == frame.next >= 1

\* the for loop of lines 89-91 has awaited every depends_on entry
DepsResolved(frame) ==
    /\ frame.next >= 1
    /\ frame.next > Len(StepMapGet(frame.stepId).depends_on)

\* a bug: the parameters are dropped on the way to the tool
ToolArgumentsEmpty(step) == <<>>

\* lines 96-99: executeTool(step.tool, step.parameters)
ToolArguments(step) == step.parameters

\* executeTool(step.tool, step.parameters) runs to its first await (lines 151-160):
\* fixToolCall works on the parameters object of the step, and the request is made
\* unless fixToolCall or buildApiUrl threw
ExecuteToolStart(step) ==
    LET arguments == ToolArguments(step)
    IN /\ toolCalls' = Append(toolCalls, <<step.tool, arguments>>)
       /\ plan' = [plan EXCEPT !.steps[StepMapIndex(step.id)].parameters =
                       fixToolCall(step.tool, arguments).toolCall]
       /\ calls' = calls \o <<Call("tool", "call", step.id)>>
                    \o (IF ThrowsBeforeFetch(step.tool, arguments) = ""
                        THEN <<Call("fetch", "call", step.id)>> ELSE <<>>)

\* how the executeTool call in flight can end: fetch answered and response.ok, or
\* a throw with the message of lines 154-155 or of line 166
ToolCanReturn(step) == ThrowsBeforeFetch(step.tool, step.parameters) = ""
ToolCanThrow(step, message) ==
    IF ToolCanReturn(step) THEN message = "API call failed (404): not found"
    ELSE message = ThrowsBeforeFetch(step.tool, step.parameters)

\* a bug: the entry is pushed as pending and never set to running
InvokeToolPending ==
    /\ epc = "run"
    /\ stack # <<>>
    /\ DepsResolved(Top)
    /\ executionTrace' = Append(executionTrace,
            [step |-> StepMapGet(Top.stepId).description, status |-> "pending",
             details |-> <<>>])
    /\ epc' = "tool"
    /\ ExecuteToolStart(StepMapGet(Top.stepId))
    /\ UNCHANGED <<loopIdx, stack, completed, results, execError>>
    /\ UNCHANGED <<opc, stream, fullResponse, chunksLeft>>
    /\ UNCHANGED <<revVars, planGiven, agentVars, proxyVars, adapterVars, validatorVars, userMessage, planVars, dbVars>>

\* lines 94-99: the running entry is pushed and the tool is called
InvokeTool ==
    /\ epc = "run"
    /\ stack # <<>>
    /\ DepsResolved(Top)
    /\ executionTrace' = Append(executionTrace,
            [step |-> StepMapGet(Top.stepId).description, status |-> "running",
             details |-> <<>>])
    /\ epc' = "tool"
    /\ ExecuteToolStart(StepMapGet(Top.stepId))
    /\ UNCHANGED <<loopIdx, stack, completed, results, execError>>
    /\ UNCHANGED <<opc, stream, fullResponse, chunksLeft>>
    /\ UNCHANGED <<revVars, planGiven, agentVars, proxyVars, adapterVars, validatorVars, userMessage, planVars, dbVars>>

\* a bug: the entry of a step that succeeded is left running
ToolReturnsLeavesRunning ==
    /\ epc = "tool"
    /\ ToolCanReturn(StepMapGet(Top.stepId))
    /\ LET step == StepMapGet(Top.stepId)
           result == ToolResult(step)
       IN /\ results' = [id \in DOMAIN results \cup {Top.stepId} |->
                            IF id = Top.stepId THEN result ELSE results[id]]
          /\ completed' = completed \cup {Top.stepId}
    /\ stack' = Front(stack)
    /\ epc' = "run"
    /\ calls' = Append(calls, Call("tool", "return", Top.stepId))
    /\ UNCHANGED <<toolCalls, loopIdx, execError, executionTrace>>
    /\ UNCHANGED <<revVars, planGiven, agentVars, proxyVars, adapterVars, validatorVars, userMessage, orchVars, planVars, dbVars>>

\* lines 101-111: the tool call returned
ToolReturns ==
    /\ epc = "tool"
    /\ ToolCanReturn(StepMapGet(Top.stepId))
    /\ LET step == StepMapGet(Top.stepId)
           result == ToolResult(step)
       IN /\ results' = [id \in DOMAIN results \cup {Top.stepId} |->
                            IF id = Top.stepId THEN result ELSE results[id]]
          /\ completed' = completed \cup {Top.stepId}
          /\ executionTrace' = [executionTrace EXCEPT
                ![Len(executionTrace)].status = "completed",
                ![Len(executionTrace)].details =
                    <<[toolUsed |-> step.tool, resultSize |-> Len(JsonStringify(result)),
                       method |-> "manual"]>>]
    /\ stack' = Front(stack)
    /\ epc' = "run"
    /\ calls' = Append(calls, Call("tool", "return", Top.stepId))
    /\ UNCHANGED <<toolCalls, loopIdx, execError>>
    /\ UNCHANGED <<revVars, planGiven, agentVars, proxyVars, adapterVars, validatorVars, userMessage, orchVars, planVars, dbVars>>

\* a bug: the catch block marks the entry and does not rethrow, the plan goes on
ToolThrowsAndContinues(message) ==
    /\ epc = "tool"
    /\ ToolCanThrow(StepMapGet(Top.stepId), message)
    /\ executionTrace' = [executionTrace EXCEPT
            ![Len(executionTrace)].status = "error",
            ![Len(executionTrace)].details = <<[error |-> <<message, "">>]>>]
    /\ stack' = Front(stack)
    /\ epc' = "run"
    /\ calls' = Append(calls, CallFailed("tool", Top.stepId, <<message, "">>))
    /\ UNCHANGED <<toolCalls, loopIdx, completed, results, execError>>
    /\ UNCHANGED <<revVars, planGiven, agentVars, proxyVars, adapterVars, validatorVars, userMessage, orchVars, planVars, dbVars>>

\* a bug: the catch block marks the first entry of the trace, not the last
ToolThrowsMarksFirst(message) ==
    /\ epc = "tool"
    /\ ToolCanThrow(StepMapGet(Top.stepId), message)
    /\ executionTrace' = [executionTrace EXCEPT
            ![1].status = "error",
            ![1].details = <<[error |-> <<message, "">>]>>]
    /\ ExecReject(Err("Error", <<message, "">>))
    /\ calls' = Append(calls, CallFailed("tool", Top.stepId, <<message, "">>))
    /\ UNCHANGED <<toolCalls, loopIdx, completed, results>>
    /\ UNCHANGED <<revVars, planGiven, agentVars, proxyVars, adapterVars, validatorVars, userMessage, orchVars, planVars, dbVars>>

\* a bug: the catch block stores the error as the result of the step
ToolThrowsStoresError(message) ==
    /\ epc = "tool"
    /\ ToolCanThrow(StepMapGet(Top.stepId), message)
    /\ executionTrace' = [executionTrace EXCEPT
            ![Len(executionTrace)].status = "error",
            ![Len(executionTrace)].details = <<[error |-> <<message, "">>]>>]
    /\ results' = [id \in DOMAIN results \cup {Top.stepId} |->
                      IF id = Top.stepId THEN ToolResult(StepMapGet(Top.stepId)) ELSE results[id]]
    /\ ExecReject(Err("Error", <<message, "">>))
    /\ calls' = Append(calls, CallFailed("tool", Top.stepId, <<message, "">>))
    /\ UNCHANGED <<toolCalls, loopIdx, completed>>
    /\ UNCHANGED <<revVars, planGiven, agentVars, proxyVars, adapterVars, validatorVars, userMessage, orchVars, planVars, dbVars>>

\* lines 112-120: the tool call threw Error(message)
ToolThrows(message) ==
    /\ epc = "tool"
    /\ ToolCanThrow(StepMapGet(Top.stepId), message)
    /\ executionTrace' = [executionTrace EXCEPT
            ![Len(executionTrace)].status = "error",
            ![Len(executionTrace)].details = <<[error |-> <<message, "">>]>>]
    /\ ExecReject(Err("Error", <<message, "">>))
    /\ calls' = Append(calls, CallFailed("tool", Top.stepId, <<message, "">>))
    /\ UNCHANGED <<toolCalls, loopIdx, completed, results>>
    /\ UNCHANGED <<revVars, planGiven, agentVars, proxyVars, adapterVars, validatorVars, userMessage, orchVars, planVars, dbVars>>

(***************************************************************************)
(* Storage (database-service.ts).                                          *)
(***************************************************************************)
ThreadId == "default"
Quote == 34

\* JSON.stringify of a string without characters to escape
JsonString(s) == <<Quote>> \o s \o <<Quote>>

\* DatabaseService.insertTurn: INSERT INTO history
InsertRow(history, turn) ==
    Append(history,
        [threadId |-> turn.threadId, role |-> turn.role,
         content |-> JsonString(turn.content), timestamp |-> turn.timestamp,
         trace |-> turn.trace])

\* a bug: a plain INSERT that keeps the row the table already holds for the id
UpsertRowKeepsOld(threads, thread) ==
    Append(threads, [threadId |-> thread.threadId, title |-> thread.title,
                     lastUpdated |-> thread.lastUpdated])

\* DatabaseService.upsertThread: INSERT OR REPLACE INTO threads, threadId the primary
\* key: the row that holds the key is deleted, then the new row is inserted
UpsertRow(threads, thread) ==
    LET Others(r) == r.threadId # thread.threadId
    IN Append(SelectSeq(threads, Others),
              [threadId |-> thread.threadId, title |-> thread.title,
               lastUpdated |-> thread.lastUpdated])

(***************************************************************************)
(* StreamingOrchestrator.orchestrateRagWorkflow (streaming-orchestrator.ts: *)
(* revision 1 is lines 62-220, revision 2 is lines 326-531).               *)
(***************************************************************************)
TitleMax == 100
Dot == 46

Event(type, message, step, data, text) ==
    [type |-> type, message |-> message, step |-> step, data |-> data, text |-> text]

\* sendStatus
StatusEvent(message) == Event("status", message, "", <<>>, <<>>)
\* sendTrace
TraceEvent(step, data) == Event("trace", "", step, data, <<>>)
ContentEvent(text) == Event("content", "", "", <<>>, text)
ErrorEvent(message) == Event("error", message, "", <<>>, <<>>)
DoneEvent == Event("done", "", "", <<>>, <<>>)

RetrievalStatus == "Searching API documentation..."
PlanningStatus ==
    IF revision = 1
    THEN "Planning execution steps..."
    ELSE "Planning execution steps. This may take a considerable amount of time..."
ExecutionStatus == "Executing API calls..."
SynthesisStatus == "Generating response..."

\* what the retrieval collaborator answers with: apiSearchResult.data
RagResults ==
    { <<>>,
      <<[id |-> "chunk-1", text |-> Txt(2), score |-> 1],
        [id |-> "chunk-2", text |-> Txt(1), score |-> 0]>> }

\* one character, and one short of the title's length
ChunkTexts == {Txt(1), Txt(TitleMax - 1)}

\* a bug: the catch block closes the stream with a done event after the error event
OrchCatchThenDone(e, events) ==
    /\ stream' = stream \o events \o <<ErrorEvent(e.message), DoneEvent>>
    /\ opc' = IF revision = 1 THEN "threw" ELSE "returned"

\* a bug: the catch block reports every failure under one fixed message
OrchCatchGeneric(e, events) ==
    /\ stream' = stream \o events
                  \o <<ErrorEvent(<<"An error occurred during processing", "">>)>>
    /\ opc' = IF revision = 1 THEN "threw" ELSE "returned"

\* lines 207-219 (revision 1, which rethrows) and 519-530 (revision 2, which does not)
OrchCatch(e, events) ==
    /\ stream' = stream \o events \o <<ErrorEvent(e.message)>>
    /\ opc' = IF revision = 1 THEN "threw" ELSE "returned"

\* line 77 / 343: the first status, then the retrieval call
OrchStart ==
    /\ opc = "start"
    /\ stream' = Append(stream, StatusEvent(RetrievalStatus))
    /\ opc' = "retrieval"
    /\ calls' = Append(calls, Call("search", "call", ""))
    /\ UNCHANGED <<plan, fullResponse, chunksLeft>>
    /\ UNCHANGED <<revVars, planGiven, agentVars, proxyVars, adapterVars, validatorVars, userMessage, planVars, execVars, dbVars>>

RetrievalThrows(e) ==
    /\ opc = "retrieval"
    /\ OrchCatch(e, <<>>)
    /\ calls' = Append(calls, CallFailed("search", "", e.message))
    /\ UNCHANGED <<plan, fullResponse, chunksLeft>>
    /\ UNCHANGED <<revVars, planGiven, agentVars, proxyVars, adapterVars, validatorVars, userMessage, planVars, execVars, dbVars>>

\* the documents revision 1 (ragChunks) and revision 2 (foundDocs) trace
SearchTraceData(data) ==
    LET shown == SliceTo(data, 3)
    IN IF revision = 1
       THEN shown
       ELSE [i \in 1..Len(shown) |-> [text |-> shown[i].text]]

\* lines 86-121 / 354-423: the search trace, the planning status, createExecutionPlan is called
RetrievalReturns(data) ==
    /\ opc = "retrieval"
    /\ stream' = stream \o <<TraceEvent("documentation_search", SearchTraceData(data)),
                             StatusEvent(PlanningStatus)>>
    /\ opc' = "planning"
    /\ ppc' = IF planningRevision = 1 THEN "generating" ELSE "generatingText"
    /\ attempts' = 0
    /\ planLocal' = NullPlan
    /\ calls' = calls \o <<Call("search", "return", ""), Call("plan", "call", "")>>
    /\ UNCHANGED <<plan, fullResponse, chunksLeft, planResult, planError>>
    /\ UNCHANGED <<revVars, planGiven, agentVars, proxyVars, adapterVars, validatorVars, userMessage, execVars, dbVars>>

\* plan.steps.length (revision 2, line 427) or plan.steps.map (lines 125, 433) throws
PlanUseThrows(p) == "steps" \notin p.keys \/ ~p.stepsIsArray

PlanUseError(p) ==
    IF "steps" \notin p.keys
    THEN IF revision = 1
         THEN Err("TypeError", <<"Cannot read properties of undefined (reading 'map')", "">>)
         ELSE Err("TypeError", <<"Cannot read properties of undefined (reading 'length')", "">>)
    ELSE Err("TypeError", <<"plan.steps.map is not a function", "">>)

\* lines 123-135 / 425-444: createExecutionPlan returned; the plan trace, the
\* execution status, executePlan is called
PlanningReturned ==
    /\ opc = "planning"
    /\ ppc = "returned"
    /\ ppc' = "idle"
    /\ plan' = planResult
    /\ IF PlanUseThrows(planResult)
       THEN /\ OrchCatch(PlanUseError(planResult), <<>>)
            /\ calls' = calls \o <<Call("plan", "return", ""),
                                   CallFailed("usePlan", "", PlanUseError(planResult).message)>>
            /\ UNCHANGED execVars
       ELSE /\ stream' = stream \o
                <<TraceEvent("execution_plan",
                      [reasoning |-> planResult.reasoning, steps |-> Len(planResult.steps)]),
                  StatusEvent(ExecutionStatus)>>
            /\ opc' = "executing"
            /\ epc' = "run"
            /\ loopIdx' = 1
            /\ stack' = <<>>
            /\ completed' = {}
            /\ results' = <<>>
            /\ executionTrace' = <<>>
            /\ execError' = NoError
            /\ toolCalls' = <<>>
            /\ calls' = calls \o <<Call("plan", "return", ""), Call("executePlan", "call", "")>>
    /\ planGiven' = planResult
    /\ UNCHANGED <<fullResponse, chunksLeft, attempts, planLocal, planResult, planError>>
    /\ UNCHANGED <<revVars, agentVars, proxyVars, adapterVars, validatorVars, userMessage, dbVars>>

\* createExecutionPlan rejected: straight to the catch block
PlanningThrew ==
    /\ opc = "planning"
    /\ ppc = "threw"
    /\ ppc' = "idle"
    /\ OrchCatch(planError, <<>>)
    /\ calls' = Append(calls, CallFailed("plan", "", planError.message))
    /\ UNCHANGED <<plan, fullResponse, chunksLeft, attempts, planLocal, planResult, planError>>
    /\ UNCHANGED <<revVars, planGiven, agentVars, proxyVars, adapterVars, validatorVars, userMessage, execVars, dbVars>>

\* executionTrace.find((trace) => trace.step === step.description)
TraceFind(tr, description) ==
    IF \E i \in 1..Len(tr) : tr[i].step = description
    THEN CHOOSE i \in 1..Len(tr) :
            /\ tr[i].step = description
            /\ \A j \in 1..(i - 1) : tr[j].step # description
    ELSE 0

\* lines 145-157 / 449-466: one tool_call trace per declared step
ToolCallEvents(p, res, tr) ==
    [i \in 1..Len(p.steps) |->
        LET step == p.steps[i]
            k == TraceFind(tr, step.description)
        IN TraceEvent("tool_call",
              [tool |-> step.tool, args |-> step.parameters,
               result |-> IF step.id \in DOMAIN res THEN <<res[step.id]>> ELSE <<>>,
               status |-> IF k = 0 THEN "completed" ELSE tr[k].status])]

\* a bug: the synthesis status is sent before the tool traces of the execution stage
ExecutionReturnedStatusFirst ==
    /\ opc = "executing"
    /\ epc = "done"
    /\ epc' = "idle"
    /\ stream' = stream \o <<StatusEvent(SynthesisStatus)>>
                        \o ToolCallEvents(plan, results, executionTrace)
                        \o <<TraceEvent("execution_complete", executionTrace)>>
    /\ opc' = "synthesis"
    /\ calls' = calls \o <<Call("executePlan", "return", ""), Call("synthesis", "call", "")>>
    /\ UNCHANGED <<plan, fullResponse, chunksLeft>>
    /\ UNCHANGED <<toolCalls, loopIdx, stack, completed, results, executionTrace, execError>>
    /\ UNCHANGED <<revVars, planGiven, agentVars, proxyVars, adapterVars, validatorVars, userMessage, planVars, dbVars>>

\* lines 137-174 / 446-484: executePlan returned; the tool traces, the synthesis
\* status, generateFinalResponse is called
ExecutionReturned ==
    /\ epc = "done"
    /\ epc' = "idle"
    /\ stream' = stream \o ToolCallEvents(plan, results, executionTrace)
                        \o <<TraceEvent("execution_complete", executionTrace),
                             StatusEvent(SynthesisStatus)>>
    /\ opc' = "synthesis"
    /\ calls' = calls \o <<Call("executePlan", "return", ""), Call("synthesis", "call", "")>>
    /\ UNCHANGED <<plan, fullResponse, chunksLeft>>
    /\ UNCHANGED <<toolCalls, loopIdx, stack, completed, results, executionTrace, execError>>
    /\ UNCHANGED <<revVars, planGiven, agentVars, proxyVars, adapterVars, validatorVars, userMessage, planVars, dbVars>>

\* a bug: a rejected executePlan is logged and the run goes on to synthesis
ExecutionThrewGoesOn ==
    /\ opc = "executing"
    /\ epc = "threw"
    /\ epc' = "idle"
    /\ stream' = Append(stream, StatusEvent(SynthesisStatus))
    /\ opc' = "synthesis"
    /\ calls' = calls \o <<CallFailed("executePlan", "", execError.message),
                           Call("synthesis", "call", "")>>
    /\ UNCHANGED <<plan, fullResponse, chunksLeft>>
    /\ UNCHANGED <<toolCalls, loopIdx, stack, completed, results, executionTrace, execError>>
    /\ UNCHANGED <<revVars, planGiven, agentVars, proxyVars, adapterVars, validatorVars, userMessage, planVars, dbVars>>

\* a bug: the tool traces of the steps that ran are sent before the error event
ExecutionThrewSendsTraces ==
    /\ epc = "threw"
    /\ epc' = "idle"
    /\ OrchCatch(execError, ToolCallEvents(plan, results, executionTrace))
    /\ calls' = Append(calls, CallFailed("executePlan", "", execError.message))
    /\ UNCHANGED <<plan, fullResponse, chunksLeft>>
    /\ UNCHANGED <<toolCalls, loopIdx, stack, completed, results, executionTrace, execError>>
    /\ UNCHANGED <<revVars, planGiven, agentVars, proxyVars, adapterVars, validatorVars, userMessage, planVars, dbVars>>

\* executePlan rejected: straight to the catch block
ExecutionThrew ==
    /\ epc = "threw"
    /\ epc' = "idle"
    /\ OrchCatch(execError, <<>>)
    /\ calls' = Append(calls, CallFailed("executePlan", "", execError.message))
    /\ UNCHANGED <<plan, fullResponse, chunksLeft>>
    /\ UNCHANGED <<toolCalls, loopIdx, stack, completed, results, executionTrace, execError>>
    /\ UNCHANGED <<revVars, planGiven, agentVars, proxyVars, adapterVars, validatorVars, userMessage, planVars, dbVars>>

SynthesisThrows(e) ==
    /\ opc = "synthesis"
    /\ OrchCatch(e, <<>>)
    /\ calls' = Append(calls, CallFailed("synthesis", "", e.message))
    /\ UNCHANGED <<plan, fullResponse, chunksLeft>>
    /\ UNCHANGED <<revVars, planGiven, agentVars, proxyVars, adapterVars, validatorVars, userMessage, planVars, execVars, dbVars>>

\* lines 177 / 487: generateFinalResponse returned the stream; let fullResponse = ''
SynthesisReturns ==
    /\ opc = "synthesis"
    /\ opc' = "streaming"
    /\ fullResponse' = <<>>
    /\ chunksLeft' = MaxChunks
    /\ calls' = Append(calls, Call("synthesis", "return", ""))
    /\ UNCHANGED <<stream, plan>>
    /\ UNCHANGED <<revVars, planGiven, agentVars, proxyVars, adapterVars, validatorVars, userMessage, planVars, execVars, dbVars>>

\* a bug: fullResponse = chunk, the answer kept is the last chunk only
StreamChunkKeepsLast(chunk) ==
    /\ opc = "streaming"
    /\ chunksLeft > 0
    /\ chunksLeft' = chunksLeft - 1
    /\ fullResponse' = chunk
    /\ stream' = Append(stream, ContentEvent(chunk))
    /\ UNCHANGED <<opc, plan>>
    /\ UNCHANGED <<revVars, planGiven, agentVars, proxyVars, adapterVars, validatorVars, userMessage, planVars, execVars, dbVars, calls>>

\* lines 178-185 / 488-495: one chunk of responseStream.textStream
StreamChunk(chunk) ==
    /\ opc = "streaming"
    /\ chunksLeft > 0
    /\ chunksLeft' = chunksLeft - 1
    /\ fullResponse' = fullResponse \o chunk
    /\ stream' = Append(stream, ContentEvent(chunk))
    /\ UNCHANGED <<opc, plan>>
    /\ UNCHANGED <<revVars, planGiven, agentVars, proxyVars, adapterVars, validatorVars, userMessage, planVars, execVars, dbVars, calls>>

\* the text stream fails while it is iterated
StreamThrows(e) ==
    /\ opc = "streaming"
    /\ OrchCatch(e, <<>>)
    /\ calls' = Append(calls, CallFailed("textStream", "", e.message))
    /\ UNCHANGED <<plan, fullResponse, chunksLeft>>
    /\ UNCHANGED <<revVars, planGiven, agentVars, proxyVars, adapterVars, validatorVars, userMessage, planVars, execVars, dbVars>>

\* const trace: ReasoningTrace as it stands when the turn is stored
ReasoningTrace ==
    IF revision = 1
    THEN [planningSteps |-> <<plan.reasoning>> \o [i \in 1..Len(plan.steps) |-> plan.steps[i].description],
          toolCalls |-> [i \in 1..Len(plan.steps) |->
                            [name |-> plan.steps[i].tool, args |-> plan.steps[i].parameters,
                             result |-> results[plan.steps[i].id]]],
          executionTrace |-> executionTrace]
    ELSE [planningSteps |-> <<plan.reasoning>> \o [i \in 1..Len(plan.steps) |-> plan.steps[i].description],
          toolCalls |-> <<>>,
          executionTrace |-> executionTrace]

\* the text stream ended.  Revision 2 enqueues done here (lines 497-499); both
\* revisions then call insertTurn (lines 188-194 / 502-508)
StreamEnds ==
    /\ opc = "streaming"
    /\ stream' = IF revision = 2 THEN Append(stream, DoneEvent) ELSE stream
    /\ opc' = "insertTurn"
    /\ now' = now + 1
    /\ calls' = Append(calls, Call("insertTurn", "call", ""))
    /\ UNCHANGED <<plan, fullResponse, chunksLeft, dbHistory, dbThreads>>
    /\ UNCHANGED <<revVars, planGiven, agentVars, proxyVars, adapterVars, validatorVars, userMessage, planVars, execVars>>

InsertTurnThrows(e) ==
    /\ opc = "insertTurn"
    /\ OrchCatch(e, <<>>)
    /\ calls' = Append(calls, CallFailed("insertTurn", "", e.message))
    /\ UNCHANGED <<plan, fullResponse, chunksLeft>>
    /\ UNCHANGED <<revVars, planGiven, agentVars, proxyVars, adapterVars, validatorVars, userMessage, planVars, execVars, dbVars>>

\* a bug: the whole answer is the title
ThreadTitleWhole(response) == response

\* title of lines 199-200 / 513-514
ThreadTitle(response) ==
    SliceTo(response, TitleMax) \o (IF Len(response) > TitleMax THEN <<Dot, Dot, Dot>> ELSE <<>>)

\* insertTurn stored the assistant turn; upsertThread is called (lines 197-202 / 511-516)
InsertTurnReturns ==
    /\ opc = "insertTurn"
    /\ dbHistory' = InsertRow(dbHistory,
            [threadId |-> ThreadId, role |-> "assistant", content |-> fullResponse,
             timestamp |-> now, trace |-> ReasoningTrace])
    /\ opc' = "upsertThread"
    /\ now' = now + 1
    /\ calls' = calls \o <<Call("insertTurn", "return", ""), Call("upsertThread", "call", "")>>
    /\ UNCHANGED <<stream, plan, fullResponse, chunksLeft, dbThreads>>
    /\ UNCHANGED <<revVars, planGiven, agentVars, proxyVars, adapterVars, validatorVars, userMessage, planVars, execVars>>

UpsertThreadThrows(e) ==
    /\ opc = "upsertThread"
    /\ OrchCatch(e, <<>>)
    /\ calls' = Append(calls, CallFailed("upsertThread", "", e.message))
    /\ UNCHANGED <<plan, fullResponse, chunksLeft>>
    /\ UNCHANGED <<revVars, planGiven, agentVars, proxyVars, adapterVars, validatorVars, userMessage, planVars, execVars, dbVars>>

\* upsertThread stored the summary.  Revision 1 enqueues done here (lines 204-206)
UpsertThreadReturns ==
    /\ opc = "upsertThread"
    /\ dbThreads' = UpsertRow(dbThreads,
            [threadId |-> ThreadId, title |-> ThreadTitle(fullResponse), lastUpdated |-> now])
    /\ stream' = IF revision = 1 THEN Append(stream, DoneEvent) ELSE stream
    /\ opc' = "returned"
    /\ calls' = Append(calls, Call("upsertThread", "return", ""))
    /\ UNCHANGED <<plan, fullResponse, chunksLeft, dbHistory, now>>
    /\ UNCHANGED <<revVars, planGiven, agentVars, proxyVars, adapterVars, validatorVars, userMessage, planVars, execVars>>

(***************************************************************************)
(* OrchestrApiAgent.onRequest (cloudflare/agent/agent-class.ts, lines      *)
(* 130-182) and the runs it starts.  The agent is one object: its requests  *)
(* share the storage, and each runs from one await to the next without      *)
(* interruption.  A run is the pipeline above with the plan and the tool    *)
(* calls left out: one step per stage.                                      *)
(***************************************************************************)
MaxRequests == 2    \* requests the agent receives
Requests == 1..MaxRequests

Space == 32
Newline == 10

TextPart(text) == [type |-> "text", text |-> text]
ImagePart == [type |-> "image", text |-> <<>>]
\* a message of the request body; content is an array of parts, a string or absent
Message(role, kind, parts) == [role |-> role, content |-> [kind |-> kind, parts |-> parts]]
UserText(text) == Message("user", "array", <<TextPart(text)>>)

Body(json, threadId, messages) == [json |-> json, threadId |-> threadId, messages |-> messages]
NoBody == Body(FALSE, "", <<>>)

\* bodies a client sends: threadId "" stands for a body without a threadId string
RequestBodies ==
    { NoBody,
      Body(TRUE, "", <<>>),
      Body(TRUE, "", <<UserText(Txt(2))>>),
      Body(TRUE, "", <<UserText(<<Space>>)>>),
      Body(TRUE, "", <<UserText(Txt(2)), Message("assistant", "array", <<TextPart(Txt(1))>>)>>),
      Body(TRUE, "", <<UserText(Txt(2)), UserText(<<Space, Newline>>)>>),
      Body(TRUE, "", <<Message("assistant", "array", <<TextPart(Txt(1))>>)>>),
      Body(TRUE, "", <<Message("tool", "array", <<TextPart(Txt(1))>>)>>),
      Body(TRUE, "", <<Message("user", "string", <<TextPart(Txt(2))>>)>>),
      Body(TRUE, "", <<Message("user", "undefined", <<>>)>>),
      Body(TRUE, "", <<Message("user", "array", <<ImagePart>>)>>),
      Body(TRUE, "", <<Message("user", "array", <<TextPart(Txt(1)), ImagePart, TextPart(Txt(1))>>)>>),
      Body(TRUE, "thread-1", <<UserText(Txt(1))>>) }

\* a value thrown: an Error with its message, or a Response with its status and body
Thrown(isError, status, message) == [isError |-> isError, status |-> status, message |-> message]
NotThrown == Thrown(FALSE, 0, "")

\* Array.prototype.join('\n') of the text parts (lines 101-103)
RECURSIVE JoinTexts(_)
JoinTexts(parts) ==
    IF parts = <<>> THEN <<>>
    ELSE IF Len(parts) = 1 THEN parts[1].text
    ELSE parts[1].text \o <<Newline>> \o JoinTexts(Tail(parts))

\* String.prototype.trim() leaves nothing
IsBlank(text) == \A i \in 1..Len(text) : text[i] \in {Space, Newline}

\* extractUserMessage (lines 82-119): what it throws, or the thread id and the
\* text of the last user message
extractUserMessage(body) ==
    LET IsAllowed(m) == m.role \in {"user", "assistant", "system"}
        IsText(c) == c.type = "text"
        allowed == SelectSeq(body.messages, IsAllowed)
        ContentOf(m) == IF m.content.kind = "undefined" THEN <<>>
                        ELSE JoinTexts(SelectSeq(m.content.parts, IsText))
        fullMessages == [i \in 1..Len(allowed) |-> [role |-> allowed[i].role, content |-> ContentOf(allowed[i])]]
        users == {i \in 1..Len(fullMessages) : fullMessages[i].role = "user"}
        last == CHOOSE i \in users : \A j \in users : j <= i
        threadId == IF body.threadId = "" THEN ThreadId ELSE body.threadId
    IN IF \E i \in 1..Len(allowed) : allowed[i].content.kind = "string"
       THEN [thrown |-> Thrown(TRUE, 0, "m.content?.filter is not a function"),
             threadId |-> threadId, lastUserMessage |-> <<>>]
       ELSE IF users = {} \/ IsBlank(fullMessages[last].content)
       THEN [thrown |-> Thrown(FALSE, 400, "Missing or invalid message"),
             threadId |-> threadId, lastUserMessage |-> <<>>]
       ELSE [thrown |-> NotThrown, threadId |-> threadId,
             lastUserMessage |-> fullMessages[last].content]

HttpResponse(status, body, streaming) == [status |-> status, body |-> body, streaming |-> streaming]
NoResponse == HttpResponse(0, "", FALSE)

\* a request of the agent: where it is suspended, what it was sent, what the handler
\* holds, the Date.now() of each storage call it made, its answer, the events
\* enqueued on its stream and the controller.close() calls made on it
Request(pc, method, body, threadId, message, response, events) ==
    [pc |-> pc, method |-> method, body |-> body, threadId |-> threadId,
     lastUserMessage |-> message, failedAt |-> "", stages |-> <<>>,
     userTs |-> 0, assistantTs |-> 0, threadTs |-> 0,
     answer |-> <<>>, response |-> response, events |-> events, closes |-> 0]
NoRequest == Request("idle", "", NoBody, "", <<>>, NoResponse, <<>>)

\* a bug: the catch block answers with a stream that holds the error
AgentCatchStreams(thrown) ==
    HttpResponse(200, IF thrown.isError THEN thrown.message ELSE "Internal Server Error", TRUE)

\* the catch block of onRequest (lines 176-181)
AgentCatch(thrown) ==
    HttpResponse(500, IF thrown.isError THEN thrown.message ELSE "Internal Server Error", FALSE)

\* a bug: the agent takes up a request only when no other is in progress
SuspendedAlone(r, at) ==
    /\ reqs[r].pc = at
    /\ \A o \in Requests \ {r} : reqs[o].pc \in {"idle", "answered", "closed"}

\* request r is suspended at `at`: its continuation runs when the awaited call settles
Suspended(r, at) == reqs[r].pc = at

\* lines 133-138: the request arrives; a request that is not a POST is answered 405
Receive(r, method, body) ==
    /\ Suspended(r, "idle")
    /\ arrivals' = Append(arrivals, r)
    /\ reqs' = [reqs EXCEPT ![r] =
            IF method # "POST"
            THEN [Request("answered", method, body, "", <<>>,
                          HttpResponse(405, "Method Not Allowed", FALSE), <<>>)
                    EXCEPT !.failedAt = "method"]
            ELSE Request("json", method, body, "", <<>>, NoResponse, <<>>)]
    /\ UNCHANGED <<revVars, planGiven, proxyVars, adapterVars, validatorVars, userMessage, orchVars, planVars, execVars, dbVars, calls>>

\* line 138: request.json() rejects with a SyntaxError
JsonRejects(r) ==
    /\ Suspended(r, "json")
    /\ ~reqs[r].body.json
    /\ reqs' = [reqs EXCEPT ![r].pc = "answered", ![r].failedAt = "json",
                            ![r].response = AgentCatch(Thrown(TRUE, 0, "Unexpected token"))]
    /\ UNCHANGED <<revVars, planGiven, proxyVars, adapterVars, validatorVars, userMessage, orchVars, planVars, execVars, dbVars, calls, arrivals>>

\* lines 138-148: request.json() resolves; extractUserMessage runs and insertTurn is
\* called with Date.now(), or what extractUserMessage threw is caught (lines 176-181)
JsonResolves(r) ==
    LET e == extractUserMessage(reqs[r].body)
    IN /\ Suspended(r, "json")
       /\ reqs[r].body.json
       /\ IF e.thrown # NotThrown
          THEN /\ reqs' = [reqs EXCEPT ![r].pc = "answered", ![r].failedAt = "extract",
                                       ![r].response = AgentCatch(e.thrown)]
               /\ now' = now
          ELSE /\ reqs' = [reqs EXCEPT ![r].pc = "insertUser", ![r].threadId = e.threadId,
                                       ![r].lastUserMessage = e.lastUserMessage,
                                       ![r].userTs = now]
               /\ now' = now + 1
       /\ UNCHANGED <<revVars, planGiven, proxyVars, adapterVars, validatorVars, userMessage, orchVars, planVars, execVars, dbHistory, dbThreads, calls, arrivals>>

\* lines 143-148: insertTurn rejects
UserTurnFails(r) ==
    /\ Suspended(r, "insertUser")
    /\ reqs' = [reqs EXCEPT ![r].pc = "answered", ![r].failedAt = "insertTurn",
                            ![r].response = AgentCatch(Thrown(TRUE, 0, "SQLITE_ERROR"))]
    /\ UNCHANGED <<revVars, planGiven, proxyVars, adapterVars, validatorVars, userMessage, orchVars, planVars, execVars, dbVars, calls, arrivals>>

\* lines 143-175: the user turn is stored; the stream is made, its start function
\* runs orchestrateRagWorkflow up to the retrieval call, and the streaming response
\* is returned
UserTurnStored(r) ==
    /\ Suspended(r, "insertUser")
    /\ dbHistory' = InsertRow(dbHistory,
            [threadId |-> reqs[r].threadId, role |-> "user", content |-> reqs[r].lastUserMessage,
             timestamp |-> reqs[r].userTs, trace |-> <<>>])
    /\ reqs' = [reqs EXCEPT ![r].pc = "retrieval",
                            ![r].stages = <<"retrieval">>,
                            ![r].events = <<StatusEvent(RetrievalStatus)>>,
                            ![r].response = HttpResponse(200, "", TRUE)]
    /\ UNCHANGED <<revVars, planGiven, proxyVars, adapterVars, validatorVars, userMessage, orchVars, planVars, execVars, dbThreads, now, calls, arrivals>>

NextStage(stage) ==
    CASE stage = "retrieval" -> "planning"
      [] stage = "planning" -> "executing"
      [] stage = "executing" -> "synthesizing"

StageStatus(stage) ==
    CASE stage = "planning" -> PlanningStatus
      [] stage = "executing" -> ExecutionStatus
      [] stage = "synthesizing" -> SynthesisStatus

\* the collaborator of a stage returns and the next stage is announced and started
StageReturns(r) ==
    /\ \E at \in {"retrieval", "planning", "executing"} : Suspended(r, at)
    /\ reqs' = [reqs EXCEPT ![r].pc = NextStage(@),
                            ![r].stages = Append(@, NextStage(reqs[r].pc)),
                            ![r].events = Append(@, StatusEvent(StageStatus(NextStage(reqs[r].pc))))]
    /\ UNCHANGED <<revVars, planGiven, proxyVars, adapterVars, validatorVars, userMessage, orchVars, planVars, execVars, dbVars, calls, arrivals>>

\* the text stream delivered the answer; insertTurn is called with Date.now()
AnswerStreamed(r, text) ==
    /\ Suspended(r, "synthesizing")
    /\ reqs' = [reqs EXCEPT ![r].pc = "insertAssistant",
                            ![r].answer = text,
                            ![r].assistantTs = now,
                            ![r].events = @ \o <<ContentEvent(text)>>
                                            \o (IF revision = 2 THEN <<DoneEvent>> ELSE <<>>)]
    /\ now' = now + 1
    /\ UNCHANGED <<revVars, planGiven, proxyVars, adapterVars, validatorVars, userMessage, orchVars, planVars, execVars, dbHistory, dbThreads, calls, arrivals>>

\* insertTurn stored the assistant turn; upsertThread is called with Date.now()
AssistantTurnStored(r) ==
    /\ Suspended(r, "insertAssistant")
    /\ dbHistory' = InsertRow(dbHistory,
            [threadId |-> reqs[r].threadId, role |-> "assistant", content |-> reqs[r].answer,
             timestamp |-> reqs[r].assistantTs, trace |-> <<>>])
    /\ reqs' = [reqs EXCEPT ![r].pc = "upsertThread", ![r].threadTs = now]
    /\ now' = now + 1
    /\ UNCHANGED <<revVars, planGiven, proxyVars, adapterVars, validatorVars, userMessage, orchVars, planVars, execVars, dbThreads, calls, arrivals>>

\* upsertThread stored the summary; the run returns and the stream is closed
ThreadStored(r) ==
    /\ Suspended(r, "upsertThread")
    /\ dbThreads' = UpsertRow(dbThreads,
            [threadId |-> reqs[r].threadId, title |-> ThreadTitle(reqs[r].answer),
             lastUpdated |-> reqs[r].threadTs])
    /\ reqs' = [reqs EXCEPT ![r].pc = "closed",
                            ![r].closes = @ + 1,
                            ![r].events = IF revision = 1 THEN Append(@, DoneEvent) ELSE @]
    /\ UNCHANGED <<revVars, planGiven, proxyVars, adapterVars, validatorVars, userMessage, orchVars, planVars, execVars, dbHistory, now, calls, arrivals>>

\* a bug: the assistant turn is stored with what was streamed before the failure
RunFailsStoresTurn(r, message) ==
    /\ \E at \in {"retrieval", "planning", "executing", "synthesizing", "insertAssistant", "upsertThread"} :
            Suspended(r, at)
    /\ reqs' = [reqs EXCEPT ![r].pc = "closed", ![r].failedAt = reqs[r].pc,
                            ![r].closes = @ + 1,
                            ![r].events = Append(@, ErrorEvent(message))]
    /\ dbHistory' = InsertRow(dbHistory,
            [threadId |-> reqs[r].threadId, role |-> "assistant", content |-> reqs[r].answer,
             timestamp |-> now, trace |-> <<>>])
    /\ UNCHANGED <<revVars, planGiven, proxyVars, adapterVars, validatorVars, userMessage, orchVars, planVars, execVars, dbThreads, now, calls, arrivals>>

\* a bug: the error event is enqueued and the stream is left open
RunFailsLeavesOpen(r, message) ==
    /\ \E at \in {"retrieval", "planning", "executing", "synthesizing", "insertAssistant", "upsertThread"} :
            Suspended(r, at)
    /\ reqs' = [reqs EXCEPT ![r].pc = "failed", ![r].failedAt = reqs[r].pc,
                            ![r].events = Append(@, ErrorEvent(message))]
    /\ UNCHANGED <<revVars, planGiven, proxyVars, adapterVars, validatorVars, userMessage, orchVars, planVars, execVars, dbVars, calls, arrivals>>

\* a collaborator of the run rejects: the error event is enqueued and the stream is
\* closed (agent-class.ts lines 161-164)
RunFails(r, message) ==
    /\ \E at \in {"retrieval", "planning", "executing", "synthesizing", "insertAssistant", "upsertThread"} :
            Suspended(r, at)
    /\ reqs' = [reqs EXCEPT ![r].pc = "closed", ![r].failedAt = reqs[r].pc,
                            ![r].closes = @ + 1,
                            ![r].events = Append(@, ErrorEvent(message))]
    /\ UNCHANGED <<revVars, planGiven, proxyVars, adapterVars, validatorVars, userMessage, orchVars, planVars, execVars, dbVars, calls, arrivals>>

AgentNext ==
    \/ \E r \in Requests, method \in {"POST", "GET"}, body \in RequestBodies : Receive(r, method, body)
    \/ \E r \in Requests : JsonRejects(r)
    \/ \E r \in Requests : JsonResolves(r)
    \/ \E r \in Requests : UserTurnFails(r)
    \/ \E r \in Requests : UserTurnStored(r)
    \/ \E r \in Requests : StageReturns(r)
    \/ \E r \in Requests : AnswerStreamed(r, Txt(2))
    \/ \E r \in Requests : AssistantTurnStored(r)
    \/ \E r \in Requests : ThreadStored(r)
    \/ \E r \in Requests : RunFails(r, "AI_APICallError")

(***************************************************************************)
(* DatabaseService.upsertThread alone (database-service.ts, lines 126-130): *)
(* a sequence of calls on one table.                                        *)
(***************************************************************************)
MaxUpserts == 3     \* most upsertThread calls made on the table

\* summaries handed to upsertThread
ThreadSummaries ==
    {[threadId |-> t, title |-> ThreadTitle(a), lastUpdated |-> u] :
        t \in {ThreadId, "thread-1"}, a \in {Txt(1), Txt(TitleMax + 1)}, u \in 1..2}

upsertThread(thread) ==
    /\ Len(calls) < MaxUpserts
    /\ dbThreads' = UpsertRow(dbThreads, thread)
    /\ calls' = Append(calls, Call("upsertThread", "return", thread))
    /\ UNCHANGED <<revVars, planGiven, agentVars, proxyVars, adapterVars, validatorVars, userMessage, orchVars, planVars, execVars, dbHistory, now>>

StorageNext == \E thread \in ThreadSummaries : upsertThread(thread)

(***************************************************************************)
(* The chat proxy (app/api/chat/route.ts, POST, lines 15-55) and the       *)
(* browser that calls it: the browser sends the cookies of its jar and     *)
(* stores the cookies the answers set.                                      *)
(***************************************************************************)
MaxPosts == 3       \* requests the browser sends

Cookie(name, value) == [name |-> name, value |-> value]
Header(name, cookie) == [name |-> name, cookie |-> cookie]

\* what the jar of the browser holds before its first request
Jars ==
    { <<>>,
      <<Cookie("theme", "dark")>>,
      <<Cookie("session_id", "session-0")>>,
      <<Cookie("theme", "dark"), Cookie("session_id", "session-0")>>,
      <<Cookie("session_id", "")>> }

\* uuidv4(): the k-th id generated
Uuid(k) == <<"uuid-1", "uuid-2", "uuid-3", "uuid-4", "uuid-5">>[k]

\* getCookie (lines 7-12): the value of the first cookie of the header with the
\* name, "" for undefined; the header is the cookies joined with "; "
getCookie(cookies, name) ==
    LET named == {i \in 1..Len(cookies) : cookies[i].name = name}
    IN IF named = {} THEN ""
       ELSE cookies[CHOOSE i \in named : \A j \in named : i <= j].value

\* headers the agent worker answers with
WorkerHeaders ==
    { <<Header("Content-Type", Cookie("", ""))>>,
      <<Header("Content-Type", Cookie("", "")), Header("Set-Cookie", Cookie("theme", "light"))>> }

\* the browser stores the cookies of the Set-Cookie headers of a response
RECURSIVE StoreCookies(_, _)
StoreCookies(cookies, headers) ==
    IF headers = <<>> THEN cookies
    ELSE LET h == Head(headers)
             Others(c) == c.name # h.cookie.name
         IN StoreCookies(IF h.name = "Set-Cookie"
                         THEN Append(SelectSeq(cookies, Others), h.cookie)
                         ELSE cookies,
                         Tail(headers))

NoPost == [pc |-> "idle", sessionId |-> "", setSessionCookie |-> FALSE]

\* lines 16-37: the handler reads or generates the session id and calls the agent
\* worker with it in the query
PostReceived ==
    LET sessionId == getCookie(jar, "session_id")
        fresh == sessionId = ""
    IN /\ post.pc = "idle"
       /\ Len(responses) < MaxPosts
       /\ post' = [pc |-> "proxied",
                   sessionId |-> IF fresh THEN Uuid(uuids + 1) ELSE sessionId,
                   setSessionCookie |-> fresh]
       /\ uuids' = IF fresh THEN uuids + 1 ELSE uuids
       /\ routed' = Append(routed, [cookies |-> jar, sessionId |-> post'.sessionId])
       /\ UNCHANGED <<jar, responses>>
       /\ UNCHANGED <<revVars, planGiven, agentVars, adapterVars, validatorVars, userMessage, orchVars, planVars, execVars, dbVars, calls>>

\* lines 51-54: the headers the response is built with
ResponseHeaders(proxyResHeaders, headers) == proxyResHeaders

\* lines 37-55: the worker answered; the handler copies its headers, appends the
\* session cookie to the copy when the id is new, and returns the response
PostAnswered(status, proxyResHeaders) ==
    LET copy == proxyResHeaders
        headers == IF post.setSessionCookie
                   THEN Append(copy, Header("Set-Cookie", Cookie("session_id", post.sessionId)))
                   ELSE copy
        response == [status |-> status, headers |-> ResponseHeaders(proxyResHeaders, headers)]
    IN /\ post.pc = "proxied"
       /\ responses' = Append(responses, response)
       /\ jar' = StoreCookies(jar, response.headers)
       /\ post' = NoPost
       /\ UNCHANGED <<routed, uuids>>
       /\ UNCHANGED <<revVars, planGiven, agentVars, adapterVars, validatorVars, userMessage, orchVars, planVars, execVars, dbVars, calls>>

ProxyNext ==
    \/ PostReceived
    \/ \E status \in {200, 500}, headers \in WorkerHeaders : PostAnswered(status, headers)

(***************************************************************************)
(* The client adapter (MyModelAdapter.run, unnamed/part_000, lines 23-206) *)
(* reading the stream the orchestrator wrote (sendStatus, sendTrace and the *)
(* enqueue calls: one JSON.stringify(event) + '\n' each, UTF-8 encoded).    *)
(* The transport delivers the bytes in chunks of any size.                  *)
(***************************************************************************)
MaxEvents == 2      \* most events the orchestrator wrote on the stream

Backslash == 92
Replacement == 65533

\* JSON.stringify escapes the quote, the backslash and the newline of a string
RECURSIVE EscapeJson(_)
EscapeJson(s) ==
    IF s = <<>> THEN <<>>
    ELSE (IF Head(s) = Newline THEN <<Backslash, 110>>
          ELSE IF Head(s) \in {Quote, Backslash} THEN <<Backslash, Head(s)>>
          ELSE <<Head(s)>>) \o EscapeJson(Tail(s))

\* the names of the members and of the event types, in ASCII
TypeKey == <<116, 121, 112, 101>>
MessageKey == <<109, 101, 115, 115, 97, 103, 101>>
TextKey == <<116, 101, 120, 116>>
TraceKey == <<116, 114, 97, 99, 101>>
TypeText(type) ==
    CASE type = "status" -> <<115, 116, 97, 116, 117, 115>>
      [] type = "content" -> <<99, 111, 110, 116, 101, 110, 116>>
      [] type = "error" -> <<101, 114, 114, 111, 114>>
      [] type = "done" -> <<100, 111, 110, 101>>
      [] type = "trace" -> TraceKey

\* texts of the events: "hi", and a text with a newline and a two-byte character
WireTexts == {<<104, 105>>, <<104, Newline, 233>>}

\* an event of a stream, its texts as character codes; <<>> for a member it has not
WireEvent(type, message, step, text) ==
    [type |-> type, message |-> message, step |-> step, text |-> text]

DataKey == <<100, 97, 116, 97>>
ExecutionComplete ==
    <<101, 120, 101, 99, 117, 116, 105, 111, 110, 95, 99, 111, 109, 112, 108, 101, 116, 101>>

\* the events of a stream; the trace is execution_complete of a plan without steps
WireEvents ==
    {WireEvent("status", <<104, 105>>, <<>>, <<>>),
     WireEvent("error", <<104, 105>>, <<>>, <<>>),
     WireEvent("done", <<>>, <<>>, <<>>),
     WireEvent("trace", <<>>, ExecutionComplete, <<>>)}
    \cup {WireEvent("content", <<>>, <<>>, t) : t \in WireTexts}

\* JSON.stringify(event) as the orchestrator builds the event (streaming-orchestrator.ts
\* lines 491-499, 523-527, 547-549, 568-572)
EventLine(ev) ==
    LET type == <<TypeKey, JsonStringValue(TypeText(ev.type))>>
        str(s) == JsonStringValue(EscapeJson(s))
    IN JsonStringify(JsonObject(
        CASE ev.type \in {"status", "error"} -> <<type, <<MessageKey, str(ev.message)>> >>
          [] ev.type = "content" -> <<type, <<TextKey, str(ev.text)>> >>
          [] ev.type = "trace" ->
                <<type, <<TraceKey, JsonObject(<< <<StepWord, str(ev.step)>>,
                                                  <<DataKey, JsonArray(<<>>)>> >>)>> >>
          [] ev.type = "done" -> <<type>>))

\* TextEncoder.encode: UTF-8, one byte below 128 and two bytes for the other characters
\* of the model; computed by halves
RECURSIVE Utf8(_)
Utf8(s) ==
    IF s = <<>> THEN <<>>
    ELSE IF Len(s) = 1
    THEN (IF s[1] < 128 THEN s ELSE <<192 + (s[1] \div 64), 128 + (s[1] % 64)>>)
    ELSE Utf8(SubSeq(s, 1, Len(s) \div 2)) \o Utf8(SubSeq(s, (Len(s) \div 2) + 1, Len(s)))

\* the bytes of a stream of events
RECURSIVE WireOf(_)
WireOf(events) ==
    IF events = <<>> THEN <<>>
    ELSE Utf8(EventLine(Head(events)) \o <<Newline>>) \o WireOf(Tail(events))

RECURSIVE EventSeqs(_)
EventSeqs(n) ==
    IF n = 0 THEN {<<>>}
    ELSE EventSeqs(n - 1) \cup {Append(s, e) : s \in {x \in EventSeqs(n - 1) : Len(x) = n - 1}, e \in WireEvents}

\* the characters of bytes: a byte from 192 with a byte of 128..191 after it is one
\* character, a byte below 128 is one character, any other byte decodes to U+FFFD;
\* computed by halves, never cutting between the two bytes of a character
RECURSIVE DecodeChars(_)
DecodeChars(bytes) ==
    LET half == Len(bytes) \div 2
        cut == IF bytes[half] >= 192 THEN half + 1 ELSE half
    IN IF bytes = <<>> THEN <<>>
       ELSE IF Len(bytes) = 1 THEN <<IF bytes[1] < 128 THEN bytes[1] ELSE Replacement>>
       ELSE IF Len(bytes) = 2
       THEN (IF bytes[1] >= 192 /\ bytes[2] \in 128..191
             THEN <<(bytes[1] - 192) * 64 + (bytes[2] - 128)>>
             ELSE DecodeChars(<<bytes[1]>>) \o DecodeChars(<<bytes[2]>>))
       ELSE DecodeChars(SubSeq(bytes, 1, cut)) \o DecodeChars(SubSeq(bytes, cut + 1, Len(bytes)))

\* a bug: decoder.decode(value) without {stream: true}: a character cut by the chunk
\* boundary becomes U+FFFD on either side
DecodeWhole(bytes) == [chars |-> DecodeChars(bytes), held |-> <<>>]

\* decoder.decode(value, {stream: true}) (line 35) of the bytes held back and the
\* chunk: the characters, and the first byte of an incomplete character held back
Decode(bytes) ==
    IF bytes # <<>> /\ bytes[Len(bytes)] >= 192
    THEN [chars |-> DecodeChars(SubSeq(bytes, 1, Len(bytes) - 1)), held |-> <<bytes[Len(bytes)]>>]
    ELSE [chars |-> DecodeChars(bytes), held |-> <<>>]

\* the pieces of a text between its newlines
RECURSIVE Pieces(_)
Pieces(text) ==
    IF \A i \in 1..Len(text) : text[i] # Newline THEN <<text>>
    ELSE LET k == CHOOSE i \in 1..Len(text) :
                    text[i] = Newline /\ \A j \in 1..(i - 1) : text[j] # Newline
         IN <<SubSeq(text, 1, k - 1)>> \o Pieces(SubSeq(text, k + 1, Len(text)))

\* buffer.split('\n') and lines.pop() (lines 36-37): the lines that are complete and
\* the text after the last newline
SplitLines(text) ==
    [lines |-> SubSeq(Pieces(text), 1, Len(Pieces(text)) - 1),
     rest |-> Pieces(text)[Len(Pieces(text))]]

\* String.prototype.trim (line 40)
RECURSIVE TrimText(_)
TrimText(s) ==
    IF s = <<>> THEN s
    ELSE IF Head(s) \in {Space, Newline, 9, 13} THEN TrimText(Tail(s))
    ELSE IF s[Len(s)] \in {Space, Newline, 9, 13} THEN TrimText(SubSeq(s, 1, Len(s) - 1))
    ELSE s

\* JSON.parse (lines 44-49): the event whose JSON text the line is; <<>> when it throws
ParseLine(line) ==
    IF \E e \in WireEvents : EventLine(e) = line
    THEN <<CHOOSE e \in WireEvents : EventLine(e) = line>>
    ELSE <<>>

\* the locals of run: where it is, the bytes the decoder holds back, buffer, the
\* events parsed and handled, currentResponse, reasoningSteps, contentParts, and
\* what the reads have left behind so far ("line", "character")
Adapter(pc, held, buffer, handled, currentResponse, reasoningSteps, contentParts, carried) ==
    [pc |-> pc, held |-> held, buffer |-> buffer, handled |-> handled,
     currentResponse |-> currentResponse, reasoningSteps |-> reasoningSteps,
     contentParts |-> contentParts, carried |-> carried]
NoAdapter == Adapter("idle", <<>>, <<>>, <<>>, <<>>, <<>>, <<>>, {})

\* contentParts with the text of the part of the type set, the part pushed if none
WithPart(parts, type, text) ==
    IF \E i \in 1..Len(parts) : parts[i].type = type
    THEN [i \in 1..Len(parts) |->
            IF i = (CHOOSE k \in 1..Len(parts) :
                        parts[k].type = type /\ \A j \in 1..(k - 1) : parts[j].type # type)
            THEN [type |-> type, text |-> text] ELSE parts[i]]
    ELSE Append(parts, [type |-> type, text |-> text])

\* reasoningSteps.join('\n')
RECURSIVE JoinSteps(_)
JoinSteps(steps) ==
    IF steps = <<>> THEN <<>>
    ELSE IF Len(steps) = 1 THEN steps[1]
    ELSE steps[1] \o <<Newline>> \o JoinSteps(Tail(steps))

\* lines 52-195: what one parsed event does to the locals; the texts pushed to
\* reasoningSteps start with the sign of the branch (U+1F504, U+26A1)
HandleEvent(ad, ev) ==
    LET seen == [ad EXCEPT !.handled = Append(@, ev)]
        reasoned(text) ==
            [seen EXCEPT !.reasoningSteps = Append(@, text),
                         !.contentParts = WithPart(@, "reasoning",
                                                   JoinSteps(Append(ad.reasoningSteps, text)))]
    IN CASE ev.type = "content" ->
              [seen EXCEPT !.currentResponse = @ \o ev.text,
                           !.contentParts = WithPart(@, "text", ad.currentResponse \o ev.text)]
         [] ev.type = "status" -> reasoned(<<128260, Space>> \o ev.message)
         [] ev.type = "trace" /\ ev.step = ExecutionComplete ->
              reasoned(<<9889, Space, 69, 120, 101, 99, 117, 116, 105, 111, 110, 58, Newline>>)
         [] ev.type = "error" ->
              [seen EXCEPT !.contentParts = WithPart(@, "text",
                                <<10060, Space, 69, 114, 114, 111, 114, 58, Space>> \o ev.message)]
         [] OTHER -> seen

\* lines 39-205: the for loop over the complete lines
RECURSIVE HandleLines(_, _)
HandleLines(ad, lines) ==
    IF lines = <<>> THEN ad
    ELSE LET parsed == ParseLine(TrimText(Head(lines)))
         IN HandleLines(IF parsed = <<>> THEN ad ELSE HandleEvent(ad, parsed[1]), Tail(lines))

\* lines 33-205: reader.read() returned the next n bytes
AdapterReads(n) ==
    LET d == Decode(adapter.held \o SubSeq(wire, 1, n))
        split == SplitLines(adapter.buffer \o d.chars)
        after == HandleLines(adapter, split.lines)
    IN /\ adapter.pc = "reading"
       /\ n \in 1..Len(wire)
       /\ wire' = SubSeq(wire, n + 1, Len(wire))
       /\ adapter' = [after EXCEPT !.held = d.held, !.buffer = split.rest,
                                   !.carried = @ \cup (IF split.rest # <<>> THEN {"line"} ELSE {})
                                                 \cup (IF d.held # <<>> THEN {"character"} ELSE {})]
       /\ UNCHANGED emitted
       /\ UNCHANGED <<revVars, planGiven, agentVars, proxyVars, validatorVars, userMessage, orchVars, planVars, execVars, dbVars, calls>>

\* line 34: reader.read() returned done
AdapterEnds ==
    /\ adapter.pc = "reading"
    /\ wire = <<>>
    /\ adapter' = [adapter EXCEPT !.pc = "ended"]
    /\ UNCHANGED <<emitted, wire>>
    /\ UNCHANGED <<revVars, planGiven, agentVars, proxyVars, validatorVars, userMessage, orchVars, planVars, execVars, dbVars, calls>>

AdapterNext ==
    \/ \E n \in 1..Len(wire) : AdapterReads(n)
    \/ AdapterEnds

(***************************************************************************)
(* The specifications.                                                     *)
(***************************************************************************)
InitCommon ==
    /\ stream = <<>>
    /\ plan = NullPlan
    /\ fullResponse = <<>>
    /\ chunksLeft = 0
    /\ attempts = 0
    /\ planLocal = NullPlan
    /\ planResult = NullPlan
    /\ planError = NoError
    /\ epc = "idle"
    /\ loopIdx = 0
    /\ stack = <<>>
    /\ completed = {}
    /\ results = <<>>
    /\ executionTrace = <<>>
    /\ execError = NoError
    /\ toolCalls = <<>>
    /\ planGiven = NullPlan
    /\ reqs = [r \in Requests |-> NoRequest]
    /\ arrivals = <<>>
    /\ post = NoPost
    /\ uuids = 0
    /\ routed = <<>>
    /\ responses = <<>>
    /\ dbHistory = <<>>
    /\ dbThreads = <<>>
    /\ now = 1
    /\ validatorPlan = NoValidatorPlan
    /\ validatorResult = NotValidated
    /\ calls = <<>>

\* one run of orchestrateRagWorkflow
Init ==
    /\ revision \in {1, 2}
    /\ planningRevision \in {1, 2}
    /\ userMessage = Txt(3)
    /\ opc = "start"
    /\ ppc = "idle"
    /\ InitCommon
    /\ jar = <<>>
    /\ emitted = <<>>
    /\ wire = <<>>
    /\ adapter = NoAdapter

PlanningNext ==
    \/ \E obj \in GeneratedObjects : GenerateReturns(obj)
    \/ GenerateThrows

PlanningTextNext ==
    \/ \E r \in GeneratedTexts : GenerateTextReturns(r)
    \/ \E e \in CollaboratorErrors : GenerateTextThrows(e)

ExecuteNext ==
    \/ PlanLoop
    \/ ExecuteStepEnter
    \/ ResolveDependency
    \/ InvokeTool
    \/ ToolReturns
    \/ \E m \in ToolErrorMessages : ToolThrows(m)

Next ==
    \/ OrchStart
    \/ \E e \in CollaboratorErrors : RetrievalThrows(e)
    \/ \E d \in RagResults : RetrievalReturns(d)
    \/ PlanningNext
    \/ PlanningTextNext
    \/ PlanningReturned
    \/ PlanningThrew
    \/ ExecuteNext
    \/ ExecutionReturned
    \/ ExecutionThrew
    \/ \E e \in CollaboratorErrors : SynthesisThrows(e)
    \/ SynthesisReturns
    \/ \E c \in ChunkTexts : StreamChunk(c)
    \/ \E e \in CollaboratorErrors : StreamThrows(e)
    \/ StreamEnds
    \/ \E e \in CollaboratorErrors : InsertTurnThrows(e)
    \/ InsertTurnReturns
    \/ \E e \in CollaboratorErrors : UpsertThreadThrows(e)
    \/ UpsertThreadReturns

Spec == Init /\ [][Next]_vars

\* createExecutionPlan called on its own, with messages around the fallback's bound
PlanMessages == {Txt(2), Txt(FallbackQueryMax - 1), Txt(FallbackQueryMax), Txt(FallbackQueryMax + 1)}

InitPlan ==
    /\ revision = 1
    /\ planningRevision = 1
    /\ userMessage \in PlanMessages
    /\ opc = "none"
    /\ ppc = "generating"
    /\ InitCommon
    /\ jar = <<>>
    /\ emitted = <<>>
    /\ wire = <<>>
    /\ adapter = NoAdapter

SpecPlan == InitPlan /\ [][PlanningNext]_vars

\* parameters trees beside {query: {query: ...}}: page given as the string "2", page
\* given as the number 3, the required query left out, and no query group at all
ParameterTrees ==
    {[query |-> [query |-> Txt(1), page |-> JsonStringValue(<<Zero + 2>>)]],
     [query |-> [query |-> Txt(1), page |-> JsonNumber(3)]],
     [query |-> [page |-> JsonNumber(3)]],
     [path |-> [movie_id |-> JsonNumber(7)]]}

\* a tool that is no operation of the OpenAPI document
UnknownTool == "unknown-tool"

\* the step lists of at most m independent steps in which one step has one of these
\* parameters trees or the unknown tool
ParamStepLists(m) ==
    {[x[1] EXCEPT ![x[2]].parameters = x[3]] :
        x \in {y \in StepListsWithin(m, 0) \X (1..m) \X ParameterTrees : y[2] <= Len(y[1])}}
    \cup {[x[1] EXCEPT ![x[2]].tool = UnknownTool] :
        x \in {y \in StepListsWithin(m, 0) \X (1..m) : y[2] <= Len(y[1])}}

\* executePlan called on its own, with every plan of the bounds
ExecPlans ==
    LET lists == StepListsUpTo(MaxSteps)
    IN {PlanObject("Search, then fetch the details.", s, "The answer.") :
            s \in lists \cup {WithRepeatedId(l) : l \in {x \in lists : Len(x) >= 2}}
                      \cup TokenStepLists(MaxTokenSteps)
                      \cup ParamStepLists(MaxTokenSteps)}
       \cup {PlanObject("Nothing to do.", <<>>, "Nothing.")}

InitExec ==
    /\ revision = 1
    /\ planningRevision = 1
    /\ userMessage = Txt(3)
    /\ opc = "none"
    /\ ppc = "idle"
    /\ stream = <<>>
    /\ plan \in ExecPlans
    /\ fullResponse = <<>>
    /\ chunksLeft = 0
    /\ attempts = 0
    /\ planLocal = NullPlan
    /\ planResult = NullPlan
    /\ planError = NoError
    /\ epc = "run"
    /\ loopIdx = 1
    /\ stack = <<>>
    /\ completed = {}
    /\ results = <<>>
    /\ executionTrace = <<>>
    /\ execError = NoError
    /\ toolCalls = <<>>
    /\ planGiven = plan
    /\ reqs = [r \in Requests |-> NoRequest]
    /\ arrivals = <<>>
    /\ jar = <<>>
    /\ emitted = <<>>
    /\ wire = <<>>
    /\ adapter = NoAdapter
    /\ post = NoPost
    /\ uuids = 0
    /\ routed = <<>>
    /\ responses = <<>>
    /\ dbHistory = <<>>
    /\ dbThreads = <<>>
    /\ now = 1
    /\ validatorPlan = NoValidatorPlan
    /\ validatorResult = NotValidated
    /\ calls = <<>>

SpecExec == InitExec /\ [][ExecuteNext]_vars

\* executePlan with every continuation run in the end: a pending call of a
\* collaborator returns or throws, and the event loop runs what was awaiting it
SpecExecLive == SpecExec /\ WF_vars(ExecuteNext)

\* validateExecutionPlan called on its own
InitValidate ==
    /\ revision = 1
    /\ planningRevision = 1
    /\ userMessage = Txt(3)
    /\ opc = "none"
    /\ ppc = "idle"
    /\ stream = <<>>
    /\ plan = NullPlan
    /\ fullResponse = <<>>
    /\ chunksLeft = 0
    /\ attempts = 0
    /\ planLocal = NullPlan
    /\ planResult = NullPlan
    /\ planError = NoError
    /\ epc = "idle"
    /\ loopIdx = 0
    /\ stack = <<>>
    /\ completed = {}
    /\ results = <<>>
    /\ executionTrace = <<>>
    /\ execError = NoError
    /\ toolCalls = <<>>
    /\ planGiven = NullPlan
    /\ reqs = [r \in Requests |-> NoRequest]
    /\ arrivals = <<>>
    /\ jar = <<>>
    /\ emitted = <<>>
    /\ wire = <<>>
    /\ adapter = NoAdapter
    /\ post = NoPost
    /\ uuids = 0
    /\ routed = <<>>
    /\ responses = <<>>
    /\ dbHistory = <<>>
    /\ dbThreads = <<>>
    /\ now = 1
    /\ validatorPlan \in ValidatorPlans
    /\ validatorResult = NotValidated
    /\ calls = <<>>

ValidateNext == Validate

SpecValidate == InitValidate /\ [][ValidateNext]_vars

\* the agent alone: its requests, each with the run it starts
InitAgent ==
    /\ InitCommon
    /\ jar = <<>>
    /\ emitted = <<>>
    /\ wire = <<>>
    /\ adapter = NoAdapter
    /\ revision \in {1, 2}
    /\ planningRevision = 2
    /\ userMessage = <<>>
    /\ opc = "none"
    /\ ppc = "idle"

SpecAgent == InitAgent /\ [][AgentNext]_vars

\* the continuations of request r
Continue(r) ==
    \/ JsonRejects(r)
    \/ JsonResolves(r)
    \/ UserTurnFails(r)
    \/ UserTurnStored(r)
    \/ StageReturns(r)
    \/ AnswerStreamed(r, Txt(2))
    \/ AssistantTurnStored(r)
    \/ ThreadStored(r)
    \/ RunFails(r, "AI_APICallError")

\* the agent with every awaited call settling in the end: the call a request is
\* suspended at returns or fails, and the event loop runs its continuation
SpecAgentLive == SpecAgent /\ \A r \in Requests : WF_vars(Continue(r))

\* upsertThread alone, on an empty table
InitStorage ==
    /\ InitCommon
    /\ jar = <<>>
    /\ emitted = <<>>
    /\ wire = <<>>
    /\ adapter = NoAdapter
    /\ revision = 2
    /\ planningRevision = 2
    /\ userMessage = <<>>
    /\ opc = "none"
    /\ ppc = "idle"

SpecStorage == InitStorage /\ [][StorageNext]_vars

\* the chat proxy and one browser
InitProxy ==
    /\ InitCommon
    /\ jar \in Jars
    /\ emitted = <<>>
    /\ wire = <<>>
    /\ adapter = NoAdapter
    /\ revision = 2
    /\ planningRevision = 2
    /\ userMessage = <<>>
    /\ opc = "none"
    /\ ppc = "idle"

SpecProxy == InitProxy /\ [][ProxyNext]_vars

\* the client adapter reading one stream of events
InitAdapter ==
    /\ InitCommon
    /\ jar = <<>>
    /\ emitted \in EventSeqs(MaxEvents)
    /\ wire = WireOf(emitted)
    /\ adapter = Adapter("reading", <<>>, <<>>, <<>>, <<>>, <<>>, <<>>, {})
    /\ revision = 2
    /\ planningRevision = 2
    /\ userMessage = <<>>
    /\ opc = "none"
    /\ ppc = "idle"

SpecAdapter == InitAdapter /\ [][AdapterNext]_vars

\* the events whose lines have been delivered whole: as many as the bytes delivered
\* hold newlines
Delivered ==
    LET sent == SubSeq(WireOf(emitted), 1, Len(WireOf(emitted)) - Len(wire))
    IN SubSeq(emitted, 1, Cardinality({i \in 1..Len(sent) : sent[i] = Newline}))

\* C37: however the bytes of the newline-terminated stream are cut into chunks, the
\* events the adapter has parsed and handled are, in the order of emission, the
\* events whose lines have been delivered whole, and when the stream has ended they
\* are the events the orchestrator emitted: none lost, none twice, none split.
C37_AdapterIndependentOfChunking ==
    /\ adapter.pc \in {"reading", "ended"} => adapter.handled = Delivered
    /\ adapter.pc = "ended" => adapter.handled = emitted /\ adapter.buffer = <<>>

\* the stream of a content event with a newline and a two-byte character and of one
\* more event has ended, after a chunk had ended inside a line and another inside
\* the character, and the adapter has handled both events
C37_Witness ==
    /\ adapter.pc = "ended"
    /\ Len(emitted) = MaxEvents
    /\ \E i \in 1..Len(emitted) : emitted[i].text = <<104, Newline, 233>>
    /\ adapter.carried = {"line", "character"}
    /\ adapter.handled = emitted

(***************************************************************************)
(* Properties of OrchestrApiAgent.onRequest.                               *)
(***************************************************************************)
\* the request failed before its stream was made
FailedBeforeStream(r) == reqs[r].failedAt \in {"json", "extract", "insertTurn"}

\* C24: a request that fails before its event stream is opened (parsing the body,
\* extracting the user message, storing the user turn) is answered with a response
\* that is no stream and has an error status; no event is enqueued for it and no
\* stage of the pipeline is started.
C24_FailureBeforeStreamIsErrorResponse ==
    \A r \in Requests :
        /\ FailedBeforeStream(r) =>
            /\ reqs[r].response.status >= 400
            /\ ~reqs[r].response.streaming
            /\ reqs[r].events = <<>>
            /\ reqs[r].stages = <<>>
        /\ reqs[r].events # <<>> \/ reqs[r].stages # <<>> =>
            /\ reqs[r].response = HttpResponse(200, "", TRUE)
            /\ \E i \in 1..Len(dbHistory) :
                  /\ dbHistory[i].role = "user"
                  /\ dbHistory[i].timestamp = reqs[r].userTs

\* storing the user turn of one request failed while the other request was
\* streaming
C24_Witness ==
    \E a, b \in Requests :
        /\ reqs[a].failedAt = "insertTurn"
        /\ reqs[a].response.status = 500
        /\ reqs[b].response.streaming
        /\ reqs[b].events # <<>>

\* the body holds no user message with text that is not blank (its messages are
\* well formed: content is an array of parts or absent)
NoUserText(body) ==
    /\ body.json
    /\ \A i \in 1..Len(body.messages) :
        /\ body.messages[i].content.kind # "string"
        /\ body.messages[i].role = "user" =>
              \A k \in 1..Len(body.messages[i].content.parts) :
                  \/ body.messages[i].content.parts[k].type # "text"
                  \/ IsBlank(body.messages[i].content.parts[k].text)

\* C28 as claimed: a POST whose messages hold no user message with non-blank text is
\* answered with status 400 and the body 'Missing or invalid message', and no turn is
\* stored for it.
C28_NoUserMessageIs400 ==
    \A r \in Requests :
        /\ reqs[r].pc \notin {"idle", "json"}
        /\ reqs[r].method = "POST"
        /\ NoUserText(reqs[r].body)
        => /\ reqs[r].response = HttpResponse(400, "Missing or invalid message", FALSE)
           /\ reqs[r].userTs = 0

\* the run of r failed in one of the four stages
FailedInStage(r) ==
    /\ reqs[r].pc = "closed"
    /\ reqs[r].failedAt \in {"retrieval", "planning", "executing", "synthesizing"}

\* C34: when a run fails in retrieval, planning, execution or synthesis, no
\* assistant turn is inserted for it and it leaves the thread summary as it was,
\* while the user turn onRequest stored before the stream opened stays in the history.
C34_FailedRunStoresNothing ==
    \A r \in Requests :
        FailedInStage(r) =>
            /\ \A i \in 1..Len(dbHistory) :
                  dbHistory[i].role = "assistant" =>
                      \E o \in Requests \ {r} :
                          /\ reqs[o].pc \in {"upsertThread", "closed"}
                          /\ dbHistory[i].timestamp = reqs[o].assistantTs
            /\ \A i \in 1..Len(dbThreads) :
                  \E o \in Requests \ {r} :
                      /\ reqs[o].pc = "closed"
                      /\ dbThreads[i].lastUpdated = reqs[o].threadTs
            /\ \E i \in 1..Len(dbHistory) :
                  /\ dbHistory[i].role = "user"
                  /\ dbHistory[i].threadId = reqs[r].threadId
                  /\ dbHistory[i].timestamp = reqs[r].userTs
                  /\ dbHistory[i].content = JsonString(reqs[r].lastUserMessage)

\* a run failed in synthesis after another run of the same thread had stored its
\* answer and its summary
C34_Witness ==
    \E r, o \in Requests :
        /\ FailedInStage(r)
        /\ reqs[r].failedAt = "synthesizing"
        /\ reqs[o].pc = "closed" /\ reqs[o].failedAt = ""
        /\ reqs[o].threadId = reqs[r].threadId
        /\ Len(dbHistory) = 3
        /\ Len(dbThreads) = 1

\* the stream of r was made
StreamOpened(r) == reqs[r].response.streaming

\* C35: every run closes its stream in the end, exactly once, and the last event
\* enqueued before that is done or error, whether orchestrateRagWorkflow returned
\* or threw.
C35_StreamClosedOnce ==
    /\ [](\A r \in Requests :
            /\ reqs[r].closes <= 1
            /\ reqs[r].closes = 1 =>
                  /\ reqs[r].pc = "closed"
                  /\ StreamOpened(r)
                  /\ reqs[r].events[Len(reqs[r].events)].type \in {"done", "error"})
    /\ \A r \in Requests : StreamOpened(r) ~> (reqs[r].closes = 1)

\* both streams are closed, one after done and one after error
C35_Witness ==
    \E r, o \in Requests :
        /\ reqs[r].closes = 1 /\ reqs[r].events[Len(reqs[r].events)].type = "done"
        /\ reqs[o].closes = 1 /\ reqs[o].events[Len(reqs[o].events)].type = "error"

\* the runs of a and b have returned, for the same thread
BothStored(a, b) ==
    /\ a # b
    /\ reqs[a].pc = "closed" /\ reqs[a].failedAt = ""
    /\ reqs[b].pc = "closed" /\ reqs[b].failedAt = ""
    /\ reqs[a].threadId = reqs[b].threadId

\* position in the history table of the row inserted with Date.now() = ts
RowAt(ts) == CHOOSE i \in 1..Len(dbHistory) : dbHistory[i].timestamp = ts

\* C27: the runs of two requests for one thread do not wait for each other: the
\* continuation of a suspended request is enabled whatever the other request is
\* doing, and what both leave in storage is one thread row, written by either.
\* So storage writes can happen out of the order of arrival (the witness).
C27_RunsDoNotWaitForEachOther ==
    /\ \A r \in Requests :
        /\ reqs[r].pc = "idle" => ENABLED (\E body \in RequestBodies : Receive(r, "POST", body))
        /\ reqs[r].pc = "json" /\ reqs[r].body.json => ENABLED JsonResolves(r)
        /\ reqs[r].pc = "insertUser" => ENABLED UserTurnStored(r)
        /\ reqs[r].pc = "synthesizing" => ENABLED AnswerStreamed(r, Txt(2))
        /\ reqs[r].pc = "insertAssistant" => ENABLED AssistantTurnStored(r)
        /\ reqs[r].pc = "upsertThread" => ENABLED ThreadStored(r)
    /\ \A a, b \in Requests :
        BothStored(a, b) =>
            /\ Cardinality({i \in 1..Len(dbThreads) : dbThreads[i].threadId = reqs[a].threadId}) = 1
            /\ \A i \in 1..Len(dbThreads) :
                  dbThreads[i].threadId = reqs[a].threadId =>
                      dbThreads[i].lastUpdated \in {reqs[a].threadTs, reqs[b].threadTs}

\* the summary left is the one of the request that arrived first, which called
\* upsertThread after the other had
SummaryOfFirstArrival(a, b) ==
    /\ BothStored(a, b)
    /\ arrivals = <<a, b>>
    /\ reqs[a].threadTs > reqs[b].threadTs
    /\ \E i \in 1..Len(dbThreads) :
          /\ dbThreads[i].threadId = reqs[a].threadId
          /\ dbThreads[i].lastUpdated = reqs[a].threadTs

\* the assistant turns were inserted in the opposite order to their user turns
TurnsCrossed(a, b) ==
    /\ BothStored(a, b)
    /\ RowAt(reqs[a].userTs) < RowAt(reqs[b].userTs)
    /\ RowAt(reqs[b].assistantTs) < RowAt(reqs[a].assistantTs)

\* both runs have finished, with both effects
C27_Witness ==
    \E a, b \in Requests : SummaryOfFirstArrival(a, b) /\ TurnsCrossed(a, b)

(***************************************************************************)
(* Properties of DatabaseService.upsertThread.                             *)
(***************************************************************************)
\* the summary of the n-th upsertThread call
Upserted(n) == calls[n][3]

\* C26: upsertThread is idempotent by id: handing the summary just written to it
\* once more leaves the table as it is, and after any sequence of calls the table
\* holds at most one row per threadId, the summary written last for that id.
C26_UpsertThreadIdempotent ==
    /\ \A i, j \in 1..Len(dbThreads) : dbThreads[i].threadId = dbThreads[j].threadId => i = j
    /\ \A n \in 1..Len(calls) :
        \/ \E m \in (n + 1)..Len(calls) : Upserted(m).threadId = Upserted(n).threadId
        \/ \E i \in 1..Len(dbThreads) : dbThreads[i] = Upserted(n)
    /\ \A i \in 1..Len(dbThreads) : \E n \in 1..Len(calls) : dbThreads[i] = Upserted(n)
    /\ Len(calls) > 0 => UpsertRow(dbThreads, Upserted(Len(calls))) = dbThreads

\* a summary was written over another of its thread, twice, beside another thread
C26_Witness ==
    /\ Len(calls) = 3
    /\ Upserted(2) = Upserted(3)
    /\ Upserted(1).threadId = Upserted(2).threadId
    /\ Upserted(1) # Upserted(2)
    /\ dbThreads = <<Upserted(3)>>

(***************************************************************************)
(* Properties of the chat proxy.                                           *)
(***************************************************************************)
\* the request carried no session_id cookie
NoSessionCookie(cookies) == \A i \in 1..Len(cookies) : cookies[i].name # "session_id"

\* C30 as claimed: for a request without a session_id cookie the proxy generates a
\* session id and routes the request with it, the response returned carries a
\* Set-Cookie header for that id, and the next request of the browser is routed
\* with the same id.
C30_NewSessionCookieReturned ==
    \A n \in 1..Len(responses) :
        NoSessionCookie(routed[n].cookies) =>
            /\ routed[n].sessionId # ""
            /\ \E i \in 1..Len(responses[n].headers) :
                  responses[n].headers[i]
                      = Header("Set-Cookie", Cookie("session_id", routed[n].sessionId))
            /\ n < Len(routed) => routed[n + 1].sessionId = routed[n].sessionId

(***************************************************************************)
(* Properties of executePlan.                                              *)
(***************************************************************************)
Range(f) == {f[i] : i \in DOMAIN f}

\* ids the plan declares
PlanIds == {plan.steps[i].id : i \in 1..Len(plan.steps)}

\* ids the declared steps of id `id` list in depends_on
DeclaredDeps(id) ==
    UNION {Range(plan.steps[i].depends_on) : i \in {j \in 1..Len(plan.steps) : plan.steps[j].id = id}}

RECURSIVE DepClosure(_, _)
DepClosure(S, n) ==
    IF n = 0 THEN S ELSE DepClosure(S \cup UNION {DeclaredDeps(x) : x \in S}, n - 1)

\* ids reached from id along depends_on, in one step or more
Descendants(id) == DepClosure(DeclaredDeps(id), Len(plan.steps))

Acyclic == \A id \in PlanIds : id \notin Descendants(id)
DepsExist == \A id \in PlanIds : DeclaredDeps(id) \subseteq PlanIds

\* the tool events of the history, in order
IsToolEvent(c) == c[1] = "tool"
ToolEvents == SelectSeq(calls, IsToolEvent)
ToolCallCount(id) ==
    Cardinality({k \in 1..Len(calls) : calls[k][1] = "tool" /\ calls[k][2] = "call" /\ calls[k][3] = id})
ToolFailed == \E k \in 1..Len(calls) : calls[k][1] = "tool" /\ calls[k][2] = "throw"

\* C1: in an acyclic plan whose depends_on ids all exist, the tool of each step id
\* is invoked at most once in a run, however many steps list the id in depends_on.
C1_AtMostOncePerStepId ==
    (Acyclic /\ DepsExist) => \A id \in PlanIds : ToolCallCount(id) <= 1

\* a finished run of an acyclic plan in which two other steps depend on one step
C1_Witness ==
    /\ Acyclic /\ DepsExist
    /\ epc = "done"
    /\ \E id \in PlanIds :
        /\ Cardinality({i \in 1..Len(plan.steps) :
                plan.steps[i].id # id /\ id \in Range(plan.steps[i].depends_on)}) >= 2
        /\ ToolCallCount(id) = 1

\* C2: a step's tool is invoked only after every id in its depends_on has
\* completed successfully in the same run.
C2_DependenciesCompletedFirst ==
    \A k \in 1..Len(calls) :
        (calls[k][1] = "tool" /\ calls[k][2] = "call") =>
            \A d \in Range(StepMapGet(calls[k][3]).depends_on) :
                \E j \in 1..(k - 1) : calls[j] = Call("tool", "return", d)

\* a step with two different dependencies has been invoked
C2_Witness ==
    \E k \in 1..Len(calls) :
        /\ calls[k][1] = "tool" /\ calls[k][2] = "call"
        /\ Cardinality(Range(StepMapGet(calls[k][3]).depends_on)) = 2

\* C3: after the first failed tool invocation no further tool is invoked, and
\* executePlan rejects instead of returning results.
C3_FailFast ==
    \A k \in 1..Len(calls) :
        (calls[k][1] = "tool" /\ calls[k][2] = "throw") =>
            /\ \A j \in (k + 1)..Len(calls) : calls[j][1] # "tool"
            /\ epc = "threw"
            /\ execError.message = calls[k][4]

\* a tool failed and a step declared later, which exists, was never invoked and
\* does not depend on the failed step
C3_Witness ==
    \E k \in 1..Len(calls) :
        /\ calls[k][1] = "tool" /\ calls[k][2] = "throw"
        /\ DepsExist /\ Acyclic
        /\ \E i \in 1..Len(plan.steps) :
            /\ ToolCallCount(plan.steps[i].id) = 0
            /\ calls[k][3] \notin Descendants(plan.steps[i].id)
            /\ \E j \in 1..(i - 1) : plan.steps[j].id = calls[k][3]

\* C4 as claimed: a plan with a depends_on entry naming no step of the plan fails
\* the run, and the tool of no step is invoked in that run, wherever the entry is
\* declared.  (The class of the error raised is left to the claim about it.)
C4_DanglingReferenceRunsNothing ==
    ~DepsExist =>
        /\ \A k \in 1..Len(calls) : calls[k][1] # "tool"
        /\ epc # "done"

\* the n-th trace entry belongs to the n-th tool invocation
NthCall(n) == ToolEvents[2 * n - 1]
NthOutcome(n) == IF 2 * n <= Len(ToolEvents) THEN ToolEvents[2 * n][2] ELSE "pending"

\* C5: when a tool invocation fails, the trace entry of that step, and of no other,
\* has status error with the failure's message as details, and executePlan rejects
\* with that failure.
C5_FailureMarksItsEntry ==
    /\ 2 * Len(executionTrace) \in {Len(ToolEvents), Len(ToolEvents) + 1}
    /\ \A n \in 1..Len(executionTrace) :
        /\ executionTrace[n].step = StepMapGet(NthCall(n)[3]).description
        /\ executionTrace[n].status = "error" <=> NthOutcome(n) = "throw"
        /\ NthOutcome(n) = "throw" =>
            /\ executionTrace[n].details = <<[error |-> ToolEvents[2 * n][4]]>>
            /\ epc = "threw"
            /\ execError = Err("Error", ToolEvents[2 * n][4])

\* the second tool invocation of a run failed
C5_Witness ==
    /\ Len(executionTrace) = 2
    /\ executionTrace[1].status = "completed"
    /\ executionTrace[2].status = "error"
    /\ epc = "threw"

\* C31: for a plan whose depends_on relation is acyclic and names only ids of the
\* plan, executePlan ends; unless a tool invocation failed it returns, with a result
\* for every step id of the plan and a trace of one completed entry per step id.
AllCompleted ==
    /\ epc = "done"
    /\ DOMAIN results = PlanIds
    /\ Len(executionTrace) = Cardinality(PlanIds)
    /\ \A id \in PlanIds :
          \E n \in 1..Len(executionTrace) :
              /\ NthCall(n)[3] = id
              /\ executionTrace[n].status = "completed"
              /\ executionTrace[n].step = StepMapGet(id).description

C31_AcyclicPlanCompletes ==
    (Acyclic /\ DepsExist) => <>(ToolFailed \/ AllCompleted)

\* a plan of the longest kind, with a dependency, has returned
C31_Witness ==
    /\ Acyclic /\ DepsExist
    /\ AllCompleted
    /\ Len(plan.steps) = MaxSteps
    /\ \E i \in 1..Len(plan.steps) : plan.steps[i].depends_on # <<>>

\* ids on a cycle of the relation executeStep follows: from an id to the
\* depends_on of the step stepMap holds for it
RECURSIVE Followed(_, _)
Followed(S, n) ==
    IF n = 0 THEN S
    ELSE Followed(S \cup {d \in PlanIds : \E x \in S : d \in Range(StepMapGet(x).depends_on)}, n - 1)
OnCycle(id) ==
    /\ id \in PlanIds
    /\ id \in Followed({d \in PlanIds : d \in Range(StepMapGet(id).depends_on)}, Len(plan.steps))

\* C32: for a plan with a dependency cycle (a step that depends on itself
\* included), executePlan never invokes the tool of a step on the cycle and never
\* returns results.
C32_CycleNeverRuns ==
    /\ epc = "done" => ~\E id \in PlanIds : OnCycle(id)
    /\ \A k \in 1..Len(calls) :
            calls[k][1] = "tool" /\ calls[k][2] = "call" => ~OnCycle(calls[k][3])

\* the recursion into a cycle of two steps ended the run, after a step that is
\* not on the cycle had run
C32_Witness ==
    /\ epc = "threw"
    /\ execError.name = "RangeError"
    /\ \E a, b \in PlanIds : a # b /\ OnCycle(a) /\ OnCycle(b)
    /\ \E id \in PlanIds : ~OnCycle(id) /\ ToolCallCount(id) = 1

\* C38: at every point of a run the results map has a value for an id exactly when
\* the id is in the completed set, which is exactly when the tool invocation of that
\* step has returned in this run.
C38_ResultsIffCompleted ==
    /\ DOMAIN results = completed
    /\ \A id \in PlanIds \cup completed :
          id \in completed <=> \E k \in 1..Len(calls) : calls[k] = Call("tool", "return", id)
    /\ \A k \in 1..Len(calls) :
          (calls[k][1] = "tool" /\ calls[k][2] = "throw") => calls[k][3] \notin DOMAIN results

\* one step has a result, the next failed and a third never ran
C38_Witness ==
    /\ epc = "threw"
    /\ Cardinality(completed) = 1
    /\ ToolFailed
    /\ \E id \in PlanIds : ToolCallCount(id) = 0

(***************************************************************************)
(* Tokens in parameters.  A parameter string is a token when it reads      *)
(* {{identifier.path}}; the path is split at the full stops.               *)
(***************************************************************************)
IsTokenText(q) ==
    /\ Len(q) >= 7
    /\ q[1] = LBrace /\ q[2] = LBrace
    /\ q[Len(q) - 1] = RBrace /\ q[Len(q)] = RBrace
    /\ \E i \in 4..(Len(q) - 3) : q[i] = FullStop

TokenBody(q) == SubSeq(q, 3, Len(q) - 2)
FirstStop(b) == CHOOSE i \in 1..Len(b) : b[i] = FullStop /\ \A j \in 1..(i - 1) : b[j] # FullStop
TokenIdText(q) == SubSeq(TokenBody(q), 1, FirstStop(TokenBody(q)) - 1)
TokenPathText(q) == SubSeq(TokenBody(q), FirstStop(TokenBody(q)) + 1, Len(TokenBody(q)))

\* the step id a token names
TokenStepId(q) ==
    LET i == CHOOSE k \in 0..Len(StepNames) : StepIdText(k) = TokenIdText(q)
    IN IF i = 0 THEN DanglingId ELSE StepNames[i]

\* a path text cut at its full stops
RECURSIVE SplitPath(_)
SplitPath(t) ==
    IF \A i \in 1..Len(t) : t[i] # FullStop THEN <<t>>
    ELSE <<SubSeq(t, 1, FirstStop(t) - 1)>> \o SplitPath(SubSeq(t, FirstStop(t) + 1, Len(t)))

Unresolved == [ok |-> FALSE, v |-> JsonNumber(0)]

\* walking a path into a value: a key of an object, an index of an array
RECURSIVE Walk(_, _)
Walk(v, path) ==
    IF path = <<>> THEN [ok |-> TRUE, v |-> v]
    ELSE LET key == Head(path)
         IN IF v.t = "object"
            THEN IF \E k \in 1..Len(v.m) : v.m[k][1] = key
                 THEN Walk(v.m[CHOOSE k \in 1..Len(v.m) : v.m[k][1] = key][2], Tail(path))
                 ELSE Unresolved
            ELSE IF v.t = "array" /\ Len(key) = 1 /\ key[1] - Zero \in 0..(Len(v.a) - 1)
                 THEN Walk(v.a[key[1] - Zero + 1], Tail(path))
                 ELSE Unresolved

\* the n-th tool invocation: its step, the query declared for it, the query handed over
InvokedStep(n) == planGiven.steps[StepMapIndex(NthCall(n)[3])]
QueryOf(parameters) ==
    IF "query" \in DOMAIN parameters /\ "query" \in DOMAIN parameters.query
    THEN parameters.query.query ELSE <<>>
DeclaredQuery(n) == QueryOf(InvokedStep(n).parameters)
HandedQuery(n) == QueryOf(toolCalls[n][2])

\* ids with a stored result when the n-th tool invocation is made
StoredAt(n) == {ToolEvents[k][3] : k \in {j \in 1..(2 * n - 2) : ToolEvents[j][2] = "return"}}

\* the n-th invocation's query is a token whose step has a stored result in which
\* the path resolves
TokenResolves(n) ==
    /\ IsTokenText(DeclaredQuery(n))
    /\ TokenStepId(DeclaredQuery(n)) \in StoredAt(n)
    /\ Walk(results[TokenStepId(DeclaredQuery(n))], SplitPath(TokenPathText(DeclaredQuery(n)))).ok

\* C14 as claimed: when the tool of a step whose parameters hold a token
\* {{stepId.path}} is invoked, the step stepId has completed.
C14_TokenStepCompletedFirst ==
    \A n \in 1..Len(toolCalls) :
        IsTokenText(DeclaredQuery(n)) => TokenStepId(DeclaredQuery(n)) \in StoredAt(n)

\* C15 as claimed: when a parameter is a token {{id.path}} and step id has a stored
\* result, the tool is handed the value the path reaches in results[id], not the token.
C15_TokenReplacedByValue ==
    \A n \in 1..Len(toolCalls) :
        TokenResolves(n) =>
            /\ HandedQuery(n) # DeclaredQuery(n)
            /\ JsonStringValue(HandedQuery(n)) =
                  Walk(results[TokenStepId(DeclaredQuery(n))],
                       SplitPath(TokenPathText(DeclaredQuery(n)))).v

\* C16: a parameter without a token, or with a token whose step has no stored result
\* or whose path does not resolve, reaches the tool as declared; and a run of a plan
\* without cycle or dangling id is aborted by a failing tool call only.
C16_UnresolvedReachesToolUnchanged ==
    /\ Len(toolCalls) = Len(executionTrace)
    /\ \A n \in 1..Len(toolCalls) :
          ~TokenResolves(n) =>
              /\ toolCalls[n][1] = InvokedStep(n).tool
              /\ toolCalls[n][2] = InvokedStep(n).parameters
    /\ (epc = "threw" /\ Acyclic /\ DepsExist) =>
          /\ ToolFailed
          /\ execError.message = Last(ToolEvents)[4]

\* a token whose step has a stored result in which the path does not resolve has
\* reached the tool, and the run went on to its end
C16_Witness ==
    /\ epc = "done"
    /\ \E n \in 1..Len(toolCalls) :
          /\ IsTokenText(DeclaredQuery(n))
          /\ TokenStepId(DeclaredQuery(n)) \in StoredAt(n)
          /\ ~TokenResolves(n)

(***************************************************************************)
(* The order of the tool invocations.                                      *)
(***************************************************************************)
\* ids whose tool was invoked before the n-th invocation
InvokedBefore(n) == {ToolEvents[k][3] : k \in {j \in 1..(2 * n - 2) : ToolEvents[j][2] = "call"}}

\* the depends_on of the step the map holds for an id
MapDeps(id) == IF StepMapHas(id) THEN Range(StepMapGet(id).depends_on) ELSE {}

RECURSIVE MapClosure(_, _)
MapClosure(S, k) ==
    IF k = 0 THEN S ELSE MapClosure(S \cup UNION {MapDeps(x) : x \in S}, k - 1)

\* ids reached from id along depends_on
MapDescendants(id) == MapClosure(MapDeps(id), Len(plan.steps))

\* the id declared first among the ids of S
FirstDeclared(S) ==
    plan.steps[CHOOSE i \in 1..Len(plan.steps) :
                  /\ plan.steps[i].id \in S
                  /\ \A j \in 1..(i - 1) : plan.steps[j].id \notin S].id

\* ids not yet executed at the n-th invocation whose depends_on have all completed
ReadyAt(n) == {id \in PlanIds \ InvokedBefore(n) : MapDeps(id) \subseteq StoredAt(n)}

\* C17 as claimed: at every tool invocation the invoked step is the earliest-declared
\* of the steps not yet executed whose depends_on have all completed.
C17_EarliestReadyStepRuns ==
    \A n \in 1..Len(toolCalls) : NthCall(n)[3] = FirstDeclared(ReadyAt(n))

\* C17 amended: at every tool invocation the invoked step is the earliest-declared
\* step not yet executed, or a step that one depends on, directly or through other
\* steps; its own depends_on have all completed.
C17_EarliestPendingStepOrItsDependency ==
    \A n \in 1..Len(toolCalls) :
        LET first == FirstDeclared(PlanIds \ InvokedBefore(n))
        IN /\ NthCall(n)[3] \in {first} \cup MapDescendants(first)
           /\ NthCall(n)[3] \in ReadyAt(n)

\* a dependency of the first step was invoked while a step declared before it was ready
C17_Witness ==
    \E n \in 1..Len(toolCalls) :
        /\ NthCall(n)[3] # FirstDeclared(ReadyAt(n))
        /\ NthCall(n)[3] \in MapDescendants(FirstDeclared(PlanIds \ InvokedBefore(n)))

(***************************************************************************)
(* The execution trace.                                                    *)
(***************************************************************************)
\* C18: executionTrace holds one entry per tool invocation started, in invocation
\* order; every entry but the last is completed, so at most one entry is running
\* or in error, and an entry is running exactly while its tool call is in flight.
C18_OneEntryPerInvocation ==
    /\ Len(executionTrace) = Len(toolCalls)
    /\ \A n \in 1..Len(executionTrace) :
          /\ executionTrace[n].step = StepMapGet(NthCall(n)[3]).description
          /\ executionTrace[n].status \in {"running", "completed", "error"}
          /\ n < Len(executionTrace) => executionTrace[n].status = "completed"
          /\ executionTrace[n].status = "running" <=> (n = Len(executionTrace) /\ epc = "tool")
    /\ \A n, k \in 1..Len(toolCalls) : NthCall(n)[3] = NthCall(k)[3] => n = k

\* the third tool call of a run is in flight
C18_Witness ==
    /\ Len(executionTrace) = 3
    /\ executionTrace[3].status = "running"
    /\ epc = "tool"

\* the statuses an entry may take next
NextStatuses(status) ==
    IF status = "pending" THEN {"running"}
    ELSE IF status = "running" THEN {"completed", "error"}
    ELSE {}

\* C19 as claimed: a trace entry starts as pending, goes to running, and from there
\* to completed (or error); it takes no other step.
C19_PendingRunningCompleted ==
    [][\A n \in 1..Len(executionTrace') :
          IF n > Len(executionTrace)
          THEN executionTrace'[n].status = "pending"
          ELSE \/ executionTrace'[n].status = executionTrace[n].status
               \/ executionTrace'[n].status \in NextStatuses(executionTrace[n].status)]_vars

\* C19 amended: a trace entry starts as running and goes from there to completed
\* (or error); it is never pending and takes no other step.
C19_RunningThenCompleted ==
    [][\A n \in 1..Len(executionTrace') :
          IF n > Len(executionTrace)
          THEN executionTrace'[n].status = "running"
          ELSE \/ executionTrace'[n].status = executionTrace[n].status
               \/ /\ executionTrace[n].status = "running"
                  /\ executionTrace'[n].status \in {"completed", "error"}]_vars

\* two steps were executed successfully
C19_Witness ==
    /\ epc = "done"
    /\ Len(executionTrace) = 2
    /\ \A n \in 1..2 : executionTrace[n].status = "completed"

\* C20 as claimed: when executePlan fails, the error it rejects with is an
\* ExecutionError that names the first failing step.
C20_FailsWithExecutionError ==
    epc = "threw" =>
        /\ execError.name = "ExecutionError"
        /\ ToolFailed => execError.message[2] = Last(ToolEvents)[3]

\* C25 as claimed: executePlan leaves the plan as it was given: when the run has ended,
\* with a result or with an error, every step has the id, tool, depends_on and
\* parameters tree it had when executePlan was called.
C25_PlanUnchanged ==
    epc \in {"done", "threw"} =>
        /\ Len(plan.steps) = Len(planGiven.steps)
        /\ \A i \in 1..Len(plan.steps) :
              /\ plan.steps[i].id = planGiven.steps[i].id
              /\ plan.steps[i].tool = planGiven.steps[i].tool
              /\ plan.steps[i].depends_on = planGiven.steps[i].depends_on
              /\ DOMAIN plan.steps[i].parameters = DOMAIN planGiven.steps[i].parameters
              /\ \A g \in DOMAIN plan.steps[i].parameters :
                    /\ DOMAIN plan.steps[i].parameters[g] = DOMAIN planGiven.steps[i].parameters[g]
                    /\ \A k \in DOMAIN plan.steps[i].parameters[g] :
                          plan.steps[i].parameters[g][k] = planGiven.steps[i].parameters[g][k]

\* the n-th tool invocation names a tool that is no operationId of the catalog
UnknownToolCalled(n) == toolCalls[n][1] \notin Range(ToolNames)

\* C36: a step whose tool name matches no operationId of the catalog fails with
\* "Endpoint for tool ... not found" before any HTTP request is made, and the run
\* aborts as for any other tool failure: the entry is set to error, no further tool
\* is invoked and executePlan rejects with that error.
C36_UnknownToolFailsBeforeRequest ==
    \A n \in 1..Len(toolCalls) :
        UnknownToolCalled(n) =>
            /\ \A k \in 1..Len(calls) : calls[k][1] = "fetch" => calls[k][3] # NthCall(n)[3]
            /\ NthOutcome(n) \in {"pending", "throw"}
            /\ Len(toolCalls) = n
            /\ NthOutcome(n) = "throw" =>
                  /\ ToolEvents[2 * n][4] = <<"Endpoint for tool not found", "">>
                  /\ executionTrace[n].status = "error"
                  /\ epc = "threw"
                  /\ execError = Err("Error", ToolEvents[2 * n][4])

\* the second step of a plan named an unknown tool, after the first had been fetched
C36_Witness ==
    /\ epc = "threw"
    /\ Len(toolCalls) = 2
    /\ UnknownToolCalled(2)
    /\ executionTrace[1].status = "completed"
    /\ executionTrace[2].status = "error"

\* the n-th tool invocation is for a tool of the document and leaves out `query`,
\* which the schema requires and has no default for
RequiredAbsent(n) ==
    /\ toolCalls[n][1] \in Range(ToolNames)
    /\ \/ "query" \notin DOMAIN toolCalls[n][2]
       \/ "query" \notin DOMAIN toolCalls[n][2].query

\* C29: for a tool call that leaves out a parameter the schema requires and gives no
\* default for, executeTool makes no HTTP request: the call fails with "Missing
\* required parameter" and the trace entry of the step is set to error.
C29_NoRequestWithoutRequiredParameter ==
    \A n \in 1..Len(toolCalls) :
        RequiredAbsent(n) =>
            /\ \A k \in 1..Len(calls) : calls[k][1] = "fetch" => calls[k][3] # NthCall(n)[3]
            /\ NthOutcome(n) \in {"pending", "throw"}
            /\ NthOutcome(n) = "throw" =>
                  /\ ToolEvents[2 * n][4] = <<"Missing required parameter: query in query", "">>
                  /\ executionTrace[n].status = "error"
                  /\ execError.message = ToolEvents[2 * n][4]

\* the second step of a plan left out the required parameter, after the first step
\* had been fetched
C29_Witness ==
    /\ epc = "threw"
    /\ Len(toolCalls) = 2
    /\ RequiredAbsent(2)
    /\ \E k \in 1..Len(calls) : calls[k][1] = "fetch"
    /\ executionTrace[2].status = "error"

(***************************************************************************)
(* Properties of orchestrateRagWorkflow.                                   *)
(***************************************************************************)
EventsOfType(type) == {i \in 1..Len(stream) : stream[i].type = type}
IsStatus(ev) == ev.type = "status"
StatusMessages == [i \in 1..Len(SelectSeq(stream, IsStatus)) |-> SelectSeq(stream, IsStatus)[i].message]

Called(op) == {k \in 1..Len(calls) : calls[k][1] = op /\ calls[k][2] = "call"}
Returned(op) == {k \in 1..Len(calls) : calls[k][1] = op /\ calls[k][2] = "return"}

\* the failure of a stage: the retrieval call, createExecutionPlan or the use of the
\* plan it returned, executePlan, generateFinalResponse or the iteration of its text stream
StageFailureOps == {"search", "plan", "usePlan", "executePlan", "synthesis", "textStream"}
IsStageFailure(c) == c[1] \in StageFailureOps /\ c[2] = "throw"

\* C6: if a stage fails, the stream holds exactly one error event, which is its last
\* event, and no collaborator is called afterwards.
C6_StageFailureEndsStream ==
    \A k \in 1..Len(calls) :
        IsStageFailure(calls[k]) =>
            /\ k = Len(calls)
            /\ Cardinality(EventsOfType("error")) = 1
            /\ Last(stream).type = "error"
            /\ Last(stream).message = calls[k][4]
            /\ opc \in {"threw", "returned"}

\* the text stream failed after it had delivered a chunk
C6_Witness ==
    /\ calls # <<>>
    /\ Last(calls)[1] = "textStream" /\ Last(calls)[2] = "throw"
    /\ EventsOfType("content") # {}

RunEnded == opc \in {"returned", "threw"}

\* the throws of tool invocations, in order
ToolThrowEntries == {k \in 1..Len(calls) : calls[k][1] = "tool" /\ calls[k][2] = "throw"}

\* the messages executePlan can fail with when no tool invocation failed: a
\* depends_on entry names no declared step, or the recursion ran out of stack
NoToolFailureMessages ==
    {<<"Step not found", id>> :
        id \in {d \in UNION {Range(plan.steps[i].depends_on) : i \in 1..Len(plan.steps)} :
                    ~StepMapHas(d)}}
    \cup {<<"Maximum call stack size exceeded", "">>}

\* C21: when executePlan fails inside a run, the message of the run's error event is
\* the message of the error that made executePlan fail: the message the failing tool
\* invocation threw, or the message about the undeclared step.
C21_ExecutionErrorVerbatim ==
    \A k \in 1..Len(calls) :
        (calls[k][1] = "executePlan" /\ calls[k][2] = "throw") =>
            /\ Cardinality(EventsOfType("error")) = 1
            /\ LET message == Last(stream).message
               IN IF ToolThrowEntries # {}
                  THEN \E j \in ToolThrowEntries :
                          /\ \A i \in ToolThrowEntries : i <= j
                          /\ j < k
                          /\ message = calls[j][4]
                  ELSE message \in NoToolFailureMessages

\* a run whose second tool invocation failed, after the error event was sent
C21_Witness ==
    /\ RunEnded
    /\ \E k \in 1..Len(calls) : calls[k][1] = "executePlan" /\ calls[k][2] = "throw"
    /\ ToolThrowEntries # {}
    /\ Len(toolCalls) = 2
    /\ Last(stream).type = "error"

\* C7 as claimed: a done event is in the stream only if the four stages and both
\* storage writes succeeded, it is the last event, and no stream holds done and error.
C7_DoneOnlyAfterStorage ==
    \A i \in EventsOfType("done") :
        /\ i = Len(stream)
        /\ EventsOfType("error") = {}
        /\ \A op \in {"search", "plan", "executePlan", "synthesis"} : Returned(op) # {}
        /\ RunEnded => Returned("insertTurn") # {} /\ Returned("upsertThread") # {}

\* C8: the stages are linear: retrieval has returned before planning is called,
\* planning before executePlan and any tool, executePlan before synthesis, and each
\* stage is entered at most once.
C8_StagesLinear ==
    /\ \A op \in {"search", "plan", "executePlan", "synthesis"} : Cardinality(Called(op)) <= 1
    /\ \A k \in Called("plan") : \E j \in Returned("search") : j < k
    /\ \A k \in Called("executePlan") : \E j \in Returned("plan") : j < k
    /\ \A k \in Called("tool") :
          /\ \E j \in Returned("plan") : j < k
          /\ \E j \in Called("executePlan") : j < k
          /\ \A j \in Returned("executePlan") : k < j
    /\ \A k \in Called("synthesis") : \E j \in Returned("executePlan") : j < k

\* a run went through the four stages, tools included, to its end
C8_Witness ==
    /\ opc = "returned"
    /\ Returned("upsertThread") # {}
    /\ Cardinality(Called("tool")) >= 2

StageOfEvent(ev) ==
    IF ev.type = "content" THEN 4
    ELSE IF ev.step = "documentation_search" THEN 1
    ELSE IF ev.step = "execution_plan" THEN 2
    ELSE 3

AllStatuses == <<RetrievalStatus, PlanningStatus, ExecutionStatus, SynthesisStatus>>

\* the stage whose collaborator is in flight, 0 if none
StageInFlight ==
    IF opc = "retrieval" THEN 1
    ELSE IF opc = "planning" THEN 2
    ELSE IF opc = "executing" THEN 3
    ELSE IF opc \in {"synthesis", "streaming"} THEN 4
    ELSE 0

RunSucceeded == opc = "returned" /\ EventsOfType("error") = {}

\* the texts of the content events of the run, concatenated in order
IsContent(ev) == ev.type = "content"
ContentText ==
    LET c == SelectSeq(stream, IsContent)
        F[i \in 0..Len(c)] == IF i = 0 THEN <<>> ELSE F[i - 1] \o c[i].text
    IN F[Len(c)]

AssistantRows ==
    SelectSeq(dbHistory, LAMBDA r : r.threadId = ThreadId /\ r.role = "assistant")

\* C22: on a successful run exactly one assistant turn is inserted for the run's
\* thread, and its content is the concatenation, in order, of the text of the content
\* events of the run (the content column holds it as JSON text).
C22_OneAssistantTurnWithTheAnswer ==
    RunSucceeded =>
        /\ Len(AssistantRows) = 1
        /\ AssistantRows[1].content = JsonString(ContentText)

\* a successful run that streamed two chunks
C22_Witness ==
    /\ RunSucceeded
    /\ Cardinality(EventsOfType("content")) = 2
    /\ Len(AssistantRows) = 1

ThreadRows == {dbThreads[i] : i \in {k \in 1..Len(dbThreads) : dbThreads[k].threadId = ThreadId}}

\* C23 as claimed: after a successful run the thread title is the first 100
\* characters of the concatenated content, whatever its length.
C23_TitleIsFirstHundred ==
    RunSucceeded =>
        \E r \in ThreadRows : r.title = SubSeq(ContentText, 1, Min(TitleMax, Len(ContentText)))

\* C23 amended: after a successful run the thread title is the concatenated content
\* when that has at most 100 characters, and otherwise its first 100 characters
\* followed by three full stops.
C23_TitleIsFirstHundredThenDots ==
    RunSucceeded =>
        /\ Cardinality({k \in 1..Len(dbThreads) : dbThreads[k].threadId = ThreadId}) = 1
        /\ \A r \in ThreadRows :
              IF Len(ContentText) <= TitleMax
              THEN r.title = ContentText
              ELSE /\ Len(r.title) = TitleMax + 3
                   /\ \A i \in 1..TitleMax : r.title[i] = ContentText[i]
                   /\ \A i \in (TitleMax + 1)..(TitleMax + 3) : r.title[i] = Dot

\* a successful run whose answer is longer than 100 characters
C23_Witness ==
    /\ RunSucceeded
    /\ Len(ContentText) > TitleMax
    /\ ThreadRows # {}

\* the trace events that report the execution stage
ExecutionTraces ==
    {i \in EventsOfType("trace") : stream[i].step \in {"tool_call", "execution_complete"}}
ExecutePlanFailed ==
    \E k \in 1..Len(calls) : calls[k][1] = "executePlan" /\ calls[k][2] = "throw"

\* C33: when executePlan fails the run emits no tool_call and no execution_complete
\* trace event, whatever steps completed before the failure; so every tool_call
\* event emitted has status completed.
C33_NoToolTracesAfterFailure ==
    /\ (epc = "threw" \/ ExecutePlanFailed) => ExecutionTraces = {}
    /\ \A i \in ExecutionTraces :
          /\ \E k \in 1..Len(calls) : calls[k] = Call("executePlan", "return", "")
          /\ stream[i].step = "tool_call" => stream[i].data.status = "completed"

\* the run ended after executePlan had failed at its second step
C33_Witness ==
    /\ RunEnded
    /\ ExecutePlanFailed
    /\ Cardinality(completed) = 1
    /\ ToolFailed

\* C9: while a stage's collaborator is in flight the stage's status has been sent,
\* the statuses sent are the first of Retrieval, Planning, Execution, Synthesis in
\* that order, a successful run has sent the four, and every trace or content event
\* comes after the status of its stage and before the status of the next.
C9_StatusBeforeStage ==
    /\ Len(StatusMessages) <= 4
    /\ StatusMessages = SubSeq(AllStatuses, 1, Len(StatusMessages))
    /\ StageInFlight # 0 => Len(StatusMessages) = StageInFlight
    /\ RunSucceeded => Len(StatusMessages) = 4
    /\ \A i \in EventsOfType("trace") \cup EventsOfType("content") :
          /\ \E j \in 1..(i - 1) :
                stream[j].type = "status" /\ stream[j].message = AllStatuses[StageOfEvent(stream[i])]
          /\ StageOfEvent(stream[i]) < 4 =>
                \A j \in 1..(i - 1) :
                    ~(stream[j].type = "status"
                      /\ stream[j].message = AllStatuses[StageOfEvent(stream[i]) + 1])

\* a successful run with a tool trace and a content event
C9_Witness ==
    /\ RunSucceeded
    /\ EventsOfType("content") # {}
    /\ \E i \in EventsOfType("trace") : stream[i].step = "tool_call"

(***************************************************************************)
(* Properties of validateExecutionPlan.                                    *)
(***************************************************************************)
NonEmptyString(v) == v.t = "string" /\ v.s # ""

\* what the claim accepts: reasoning a non-empty string, steps a non-empty sequence,
\* every step with non-empty id, description and tool and object-shaped parameters
\* (an array counts as object-shaped here)
ClaimedValid(p) ==
    /\ p.self.t = "object"
    /\ NonEmptyString(p.reasoning)
    /\ p.steps.t = "array"
    /\ p.elems # <<>>
    /\ \A i \in 1..Len(p.elems) :
          /\ NonEmptyString(p.elems[i].id)
          /\ NonEmptyString(p.elems[i].description)
          /\ NonEmptyString(p.elems[i].tool)
          /\ p.elems[i].parameters.t \in {"object", "array"}

\* C13 as claimed: validation accepts a plan exactly when reasoning is a non-empty
\* string, steps is a non-empty sequence and every step has a non-empty id,
\* description and tool and object-shaped parameters.
C13_AcceptsExactlyWellFormed ==
    validatorResult # NotValidated =>
        (validatorResult.status = "true" <=> ClaimedValid(validatorPlan))

(***************************************************************************)
(* Properties of createExecutionPlan.                                      *)
(***************************************************************************)
\* C12 as claimed: planning failures are never surfaced: createExecutionPlan does
\* not reject, and no failure of a run comes from generating or reading the plan.
C12_PlanningNeverSurfaces ==
    /\ ppc # "threw"
    /\ \A k \in 1..Len(calls) :
          ~(calls[k][1] \in {"plan", "usePlan"} /\ calls[k][2] = "throw")

IsGenerateEvent(c) == c[1] = "generate"
\* the outcomes of the generation attempts that have ended, in order
GenOutcomes == SelectSeq(calls, IsGenerateEvent)
\* attempts made so far: those ended and the one in flight
AttemptsMade == Len(GenOutcomes) + (IF ppc = "generating" THEN 1 ELSE 0)
IsValidOutcome(c) == c[2] = "return" /\ c[3] = "valid"

\* C11: createExecutionPlan makes at most 3 generation attempts; an attempt follows
\* another only if that one failed (it threw or its object failed the check), and
\* none follows an attempt that gave a structurally valid plan.
C11_AtMostThreeAttempts ==
    /\ AttemptsMade <= 3
    /\ \A k \in 1..Len(GenOutcomes) :
          IsValidOutcome(GenOutcomes[k]) => k = AttemptsMade
    /\ \A k \in 1..(AttemptsMade - 1) : ~IsValidOutcome(GenOutcomes[k])

\* two attempts failed, one by throwing and one by an invalid object, and the
\* third gave a valid plan
C11_Witness ==
    /\ Len(GenOutcomes) = 3
    /\ ppc = "returned"
    /\ IsValidOutcome(GenOutcomes[3])
    /\ \E i, j \in 1..2 : GenOutcomes[i][2] = "throw" /\ GenOutcomes[j][3] = "invalid"

\* C10 as claimed: when the three attempts all failed (an invalid object or an
\* error each time) the plan returned is the fallback: one step, tool search-multi,
\* query = the user message cut to 500 characters.
C10_ThreeFailuresGiveFallback ==
    (ppc = "returned" /\ attempts = MaxAttempts) =>
        /\ PlanShapeOK(planResult)
        /\ Len(planResult.steps) = 1
        /\ planResult.steps[1].tool = "search-multi"
        /\ planResult.steps[1].parameters = Params(SliceTo(userMessage, FallbackQueryMax))

====
